---------------------------- MODULE Spec2Model ----------------------------
(***************************************************************************)
(* A model of the GDB remote-serial-protocol client of strace:             *)
(*   src/gdbserver/protocol.c   packet layer, notification queue           *)
(*   src/gdbserver/gdbserver.c  stop parser, tracee control loop           *)
(*                                                                         *)
(* Bytes are the integers 0..255.  A stream (a FILE) is the sequence of    *)
(* the bytes not yet read (ingress) or written so far (egress).  A C       *)
(* function is an operator from the machine state it reads to the machine  *)
(* state it leaves, loops are RECURSIVE operators, and each entry point of *)
(* the client is one action.                                               *)
(***************************************************************************)
EXTENDS Integers, Sequences, FiniteSets, TLC

VARIABLES
    conn,               \* struct gdb_conn: in, out, ack, non_stop
    notifications,      \* static char **notifications: the slots
    notifications_size, \* static int notifications_size
    tcbtab,             \* the thread table (pid2tcb/alloctcb/droptcb)
    current_tcp,        \* struct tcb *current_tcp
    gdb_caps,           \* gdb_extended, gdb_multiprocess, gdb_vcont
    status,             \* the process: running, or how it ended
    call,               \* the last call: its name, arguments and results
    ext,                \* calls made to the external decoder and printers
    server,             \* the remote stub: what it has yet to report
    hist                \* history: what the calls so far were given

vars == <<conn, notifications, notifications_size, tcbtab, current_tcp,
          gdb_caps, status, call, ext, server, hist>>

---------------------------------------------------------------------------
(* Characters.  Ascii[i] is the character with code 31 + i (the double     *)
(* quote, backslash and backquote are named).                               *)

Ascii ==
    <<" ", "!", "dquote", "#", "$", "%", "&", "'", "(", ")", "*", "+", ",", "-",
      ".", "/", "0", "1", "2", "3", "4", "5", "6", "7", "8", "9", ":", ";",
      "<", "=", ">", "?", "@", "A", "B", "C", "D", "E", "F", "G", "H", "I",
      "J", "K", "L", "M", "N", "O", "P", "Q", "R", "S", "T", "U", "V", "W",
      "X", "Y", "Z", "[", "bslash", "]", "^", "_", "bquote", "a", "b", "c", "d", "e",
      "f", "g", "h", "i", "j", "k", "l", "m", "n", "o", "p", "q", "r", "s",
      "t", "u", "v", "w", "x", "y", "z", "{", "|", "}", "~">>

Ord(c) == 31 + (CHOOSE i \in 1..Len(Ascii) : Ascii[i] = c)

\* The bytes of a string literal, written as a tuple of characters.
Str(t) == [i \in 1..Len(t) |-> Ord(t[i])]

EOF == 0 - 1
UINT8_MAX == 255
UINT16_MAX == 65535

\* The characters and the strings the code names.
ch_0 == Ord("0")
ch_9 == Ord("9")
ch_A == Ord("A")
ch_C == Ord("C")
ch_E == Ord("E")
ch_F == Ord("F")
ch_S == Ord("S")
ch_T == Ord("T")
ch_W == Ord("W")
ch_X == Ord("X")
ch_a == Ord("a")
ch_f == Ord("f")
ch_l == Ord("l")
ch_p == Ord("p")
ch_space == Ord(" ")
ch_x == Ord("x")
lit_colon == Str(<<":">>)
lit_C == Str(<<"C">>)
lit_E01 == Str(<<"E", "0", "1">>)
lit_Hg == Str(<<"H", "g">>)
lit_QCatchSyscalls_1 == Str(<<"Q", "C", "a", "t", "c", "h", "S", "y", "s", "c", "a", "l", "l", "s", ":", "1">>)
lit_comma == Str(<<",">>)
lit_c == Str(<<"c">>)
lit_semi_c == Str(<<";", "c">>)
lit_g == Str(<<"g">>)
lit_l == Str(<<"l">>)
lit_lAB == Str(<<"l", "A", "B">>)
lit_mAB == Str(<<"m", "A", "B">>)
lit_process == Str(<<";", "p", "r", "o", "c", "e", "s", "s", ":">>)
lit_qXfer == Str(<<"q", "X", "f", "e", "r", ":">>)
lit_read == Str(<<":", "r", "e", "a", "d", ":">>)
lit_siginfo == Str(<<"s", "i", "g", "i", "n", "f", "o">>)
lit_syscall_entry == Str(<<"s", "y", "s", "c", "a", "l", "l", "_", "e", "n", "t", "r", "y">>)
lit_syscall_return == Str(<<"s", "y", "s", "c", "a", "l", "l", "_", "r", "e", "t", "u", "r", "n">>)
lit_thread == Str(<<"t", "h", "r", "e", "a", "d">>)
lit_vCont_C == Str(<<"v", "C", "o", "n", "t", ";", "C">>)
lit_vCont_c == Str(<<"v", "C", "o", "n", "t", ";", "c">>)
lit_QStartNoAckMode == Str(<<"Q", "S", "t", "a", "r", "t", "N", "o", "A", "c", "k", "M", "o", "d", "e">>)
lit_qfThreadInfo == Str(<<"q", "f", "T", "h", "r", "e", "a", "d", "I", "n", "f", "o">>)
lit_qsThreadInfo == Str(<<"q", "s", "T", "h", "r", "e", "a", "d", "I", "n", "f", "o">>)
lit_vStopped == Str(<<"v", "S", "t", "o", "p", "p", "e", "d">>)

\* Bitwise c ^ 0x20 on a byte.
Xor20(c) == IF (c \div 32) % 2 = 1 THEN c - 32 ELSE c + 32

\* Sequence helpers.
\* F applied to the value of v, which is computed once.
Bind(v, F(_)) == CHOOSE r \in {F(x) : x \in {v}} : TRUE

Take(s, n) == SubSeq(s, 1, IF n < Len(s) THEN n ELSE Len(s))
Drop(s, n) == SubSeq(s, n + 1, Len(s))
IsPrefix(p, s) == Len(p) <= Len(s) /\ SubSeq(s, 1, Len(p)) = p

\* The concatenation of ss[lo..hi] (by halves: the depth stays small).
RECURSIVE FlattenRange(_, _, _)
FlattenRange(ss, lo, hi) ==
    IF lo > hi THEN <<>>
    ELSE IF lo = hi THEN ss[lo]
    ELSE LET mid == (lo + hi) \div 2
         IN  FlattenRange(ss, lo, mid) \o FlattenRange(ss, mid + 1, hi)

Flatten(ss) == FlattenRange(ss, 1, Len(ss))

\* s written k times.
Times(s, k) == [i \in 1..(k * Len(s)) |-> s[((i - 1) % Len(s)) + 1]]

\* The sum of s[lo..hi] as a uint8_t (by halves: the depth stays small).
RECURSIVE SumRange(_, _, _)
SumRange(s, lo, hi) ==
    IF lo > hi THEN 0
    ELSE IF lo = hi THEN s[lo] % 256
    ELSE LET mid == (lo + hi) \div 2
         IN  (SumRange(s, lo, mid) + SumRange(s, mid + 1, hi)) % 256

SumBytes(s) == SumRange(s, 1, Len(s))

\* A buffer read as a C string: the bytes before the first NUL.
CStr(s) ==
    IF \E i \in 1..Len(s) : s[i] = 0
    THEN SubSeq(s, 1, (CHOOSE i \in 1..Len(s) :
                          s[i] = 0 /\ \A j \in 1..(i - 1) : s[j] # 0) - 1)
    ELSE s

\* strncmp(s, lit, Len(lit)) == 0 for a literal without NUL.
StrNEq(s, lit) == IsPrefix(lit, CStr(s))

\* strcmp(s, lit) == 0.
StrEq(s, lit) == CStr(s) = lit

---------------------------------------------------------------------------
(* Hex codec: protocol.c 67-163.                                           *)

value_hex == Str(<<"0", "1", "2", "3", "4", "5", "6", "7",
                   "8", "9", "a", "b", "c", "d", "e", "f">>)

gdb_encode_hex(byte) == <<value_hex[(byte \div 16) + 1], value_hex[(byte % 16) + 1]>>

hex_nibble(hex) ==
    IF hex >= ch_0 /\ hex <= ch_9 THEN hex - ch_0
    ELSE IF hex >= ch_A /\ hex <= ch_F THEN 10 + hex - ch_A
    ELSE IF hex >= ch_a /\ hex <= ch_f THEN 10 + hex - ch_a
    ELSE UINT8_MAX

gdb_decode_hex(msb, lsb) ==
    IF hex_nibble(msb) >= 16 \/ hex_nibble(lsb) >= 16
    THEN UINT16_MAX
    ELSE 16 * hex_nibble(msb) + hex_nibble(lsb)

\* gdb_decode_hex_str on the C string s: stops at the NUL or at the first
\* byte that is no hex digit.  (The model's numbers stay far below 2^64.)
RECURSIVE hex_str_acc(_, _)
hex_str_acc(s, value) ==
    IF s = <<>> \/ Head(s) = 0 \/ hex_nibble(Head(s)) >= 16
    THEN value
    ELSE hex_str_acc(Tail(s), 16 * value + hex_nibble(Head(s)))

gdb_decode_hex_str(bytes) == hex_str_acc(bytes, 0)

\* gdb_decode_hex_n: at most n nibbles.  A NUL is no hex digit, so reading
\* stops there too.
gdb_decode_hex_n(bytes, n) == hex_str_acc(Take(bytes, n), 0)

---------------------------------------------------------------------------
(* The machine state a C function works on, as one record:                 *)
(*   in, out, ack, non_stop        struct gdb_conn                         *)
(*   notifications(_size)          the notification queue                  *)
(*   tcbtab, current_tcp, caps     tracer state                            *)
(*   status   "ok", or how the process ended: "exit0" (errx(0, ...)),      *)
(*            "exit1" (err/errx(1, ...), error_msg_and_die), "spin" (a     *)
(*            loop that no longer ends), "crash" (a wild pointer is used)  *)
(*   ext      the calls made to external functions, in order               *)
(*   ub       what the reads with undefined behaviour yield in this call   *)
(*   reply, size, ok               the values a function returns           *)
(***************************************************************************)

DOLLAR  == Ord("$")
PERCENT == Ord("%")
HASH    == Ord("#")
RBRACE  == Ord("}")
STAR    == Ord("*")
PLUS    == Ord("+")
MINUS   == Ord("-")

StopColon  == Str(<<"S", "t", "o", "p", ":">>)
T05syscall == Str(<<"T", "0", "5", "s", "y", "s", "c", "a", "l", "l">>)
syscall    == Str(<<"s", "y", "s", "c", "a", "l", "l">>)
OK         == Str(<<"O", "K">>)


\* A send_packet whose checksum leaves out the last payload byte.
send_packet_short_sum(out, command, size) ==
    LET payload == SubSeq(command, 1, size)
    IN  out \o <<DOLLAR>> \o payload \o <<HASH>>
            \o gdb_encode_hex(SumBytes(Take(payload, size - 1)))

\* send_packet: '$', the payload written raw, '#', the checksum as "%02x".
send_packet(out, command, size) ==
    LET payload == SubSeq(command, 1, size)
    IN  out \o <<DOLLAR>> \o payload \o <<HASH>>
            \o gdb_encode_hex(SumBytes(payload))

\* A count test without the upper limit.
rle_count_ok_no_upper(c2) ==
    ~(c2 < 29 \/ c2 = DOLLAR \/ c2 = HASH)

\* A count test that leaves out the two packet markers.
rle_count_ok_markers(c2) ==
    ~(c2 < 29 \/ c2 > 126)

\* The RLE count character is valid.
rle_count_ok(c2) ==
    ~(c2 < 29 \/ c2 > 126 \/ c2 = DOLLAR \/ c2 = HASH)

(* recv_packet reads its stream byte by byte; the model runs it as the     *)
(* automaton of its read positions, one step per byte read:                *)
(*   "skip"  the first loop, fast-forwarding to '$' or '%'                 *)
(*   "body"  the fgetc at the head of the second loop                      *)
(*   "pcr"   the five fgetc's after '%'                                    *)
(*   "rle"   the fgetc of the repeat count after '*'                       *)
(*   "msb", "lsb"  the two fgetc's of the checksum after '#'               *)
(*   "done"  returned; "fatal"  errx was called                            *)
(* reply holds reply[0..i-1], so i = Len(reply); n counts the bytes read.  *)
recv_start ==
    [mode |-> "skip", reply |-> <<>>, sum |-> 0, escape |-> FALSE,
     pcr |-> <<>>, msb |-> 0, n |-> 0, status |-> "ok", sum_ok |-> FALSE]

\* A case '%' that goes on with the payload without a look at the five
\* bytes.
recv_percent_any_tag(st) ==
    [st EXCEPT !.mode = "body", !.reply = <<>>, !.sum = 0, !.escape = FALSE,
               !.pcr = <<>>]

\* case '%': i = 0, sum = 0, escape = false, then the five bytes are read.
recv_percent(st) ==
    [st EXCEPT !.mode = "pcr", !.reply = <<>>, !.sum = 0, !.escape = FALSE,
               !.pcr = <<>>]

\* A loop end that forgets the XOR of an escaped character.
recv_literal_no_xor(st, c) ==
    [st EXCEPT !.mode = "body", !.reply = Append(@, c), !.escape = FALSE]

\* The end of the loop body: XOR an escaped character, add one character.
recv_literal(st, c) ==
    [st EXCEPT !.mode = "body",
               !.reply = Append(@, IF st.escape THEN Xor20(c) ELSE c),
               !.escape = FALSE]

\* One pass of the second loop on the byte c (sum += c is done first).
recv_body(st, c) ==
    LET s1 == [st EXCEPT !.mode = "body", !.sum = (@ + c) % 256]
    IN  CASE c = DOLLAR ->
                [s1 EXCEPT !.reply = <<>>, !.sum = 0, !.escape = FALSE]
          [] c = PERCENT -> recv_percent(s1)
          [] c = HASH -> [s1 EXCEPT !.mode = "msb", !.sum = st.sum]
          [] c = RBRACE -> [s1 EXCEPT !.escape = TRUE]
          [] c = STAR ->
                IF Len(st.reply) > 0 THEN [s1 EXCEPT !.mode = "rle"]
                ELSE recv_literal(s1, c)
          [] OTHER -> recv_literal(s1, c)

\* The packet is complete: *ret_sum_ok, *ret_size, the terminator.
recv_return(st, lsb) ==
    [st EXCEPT !.mode = "done",
               !.sum_ok = (st.sum = gdb_decode_hex(st.msb, lsb))]

recv_step(st, c) ==
    LET s1 == [st EXCEPT !.n = @ + 1]
    IN  CASE st.mode = "skip" ->
                IF c = DOLLAR THEN [s1 EXCEPT !.mode = "body"]
                ELSE IF c = PERCENT
                THEN \* pushed back, and read again by the second loop
                     recv_percent(s1)
                ELSE s1
          [] st.mode = "body" -> recv_body(s1, c)
          [] st.mode = "pcr" ->
                LET pcr == Append(st.pcr, c)
                    s2  == [s1 EXCEPT !.pcr = pcr, !.sum = (@ + c) % 256]
                IN  IF Len(pcr) < 5 THEN s2
                    ELSE IF pcr = StopColon THEN [s2 EXCEPT !.mode = "body"]
                    ELSE \* errx(1, "unknown non stop packet")
                         [s2 EXCEPT !.mode = "fatal", !.status = "exit1"]
          [] st.mode = "rle" ->
                IF rle_count_ok(c)
                THEN [s1 EXCEPT !.mode = "body",
                                !.reply = @ \o [k \in 1..(c - 29) |->
                                                   st.reply[Len(st.reply)]],
                                !.sum = (@ + c) % 256]
                ELSE \* ungetc(c2): the '*' is a literal, c2 is read again
                     recv_body(recv_literal(s1, STAR), c)
          [] st.mode = "msb" -> [s1 EXCEPT !.mode = "lsb", !.msb = c]
          [] st.mode = "lsb" -> recv_return(s1, c)
          [] OTHER -> st

\* fgetc returns EOF from here on.
recv_eof(st) ==
    CASE st.mode \in {"skip", "body"} ->
            \* errx(0, "recv: Connection closed")
            [st EXCEPT !.mode = "fatal", !.status = "exit0"]
      [] st.mode = "pcr" ->
            \* the bytes missing are 0xff: no "Stop:"
            [st EXCEPT !.mode = "fatal", !.status = "exit1"]
      [] st.mode = "rle" ->
            \* ungetc(EOF) does nothing; the '*' is added, the loop ends
            [recv_literal(st, STAR) EXCEPT !.mode = "fatal",
                                           !.status = "exit0"]
      [] st.mode = "msb" -> recv_return([st EXCEPT !.msb = UINT8_MAX],
                                        UINT8_MAX)
      [] st.mode = "lsb" -> recv_return(st, UINT8_MAX)
      [] OTHER -> st

\* The automaton run over in[lo..hi], by halves so that the depth of the
\* evaluation stays small; once it is "done" or "fatal" no byte is read.
RECURSIVE recv_run(_, _, _, _)
recv_run(st, in, lo, hi) ==
    IF lo > hi THEN st
    ELSE IF lo = hi THEN recv_step(st, in[lo])
    ELSE Bind(recv_run(st, in, lo, (lo + hi) \div 2), LAMBDA left :
             IF left.mode \in {"done", "fatal"} THEN left
             ELSE recv_run(left, in, (lo + hi) \div 2 + 1, hi))

recv_packet(in) ==
    Bind(recv_eof(recv_run(recv_start, in, 1, Len(in))), LAMBDA st :
        [status |-> st.status, in |-> Drop(in, st.n),
         reply |-> IF st.status = "ok" THEN st.reply ELSE <<>>,
         size |-> IF st.status = "ok" THEN Len(st.reply) ELSE 0,
         sum_ok |-> st.sum_ok])

---------------------------------------------------------------------------
(* The notification queue: protocol.c 345-403.                             *)
(* A slot is <<>> (NULL), <<buf>> (a malloc'd copy) or <<Wild>>, a pointer *)
(* read from memory that realloc left uninitialized.                       *)

InitialSlots == 10
Wild == <<EOF>>

first_null(slots) ==
    IF \E i \in 1..Len(slots) : slots[i] = <<>>
    THEN CHOOSE i \in 1..Len(slots) :
             slots[i] = <<>> /\ \A j \in 1..(i - 1) : slots[j] # <<>>
    ELSE 0

first_used(slots) ==
    IF \E i \in 1..Len(slots) : slots[i] # <<>>
    THEN CHOOSE i \in 1..Len(slots) :
             slots[i] # <<>> /\ \A j \in 1..(i - 1) : slots[j] = <<>>
    ELSE 0

\* What realloc's new slots hold (m.ub.fresh): all NULL, all wild, or the
\* first NULL and the others wild.
fresh_slots(how, n) ==
    [i \in 1..n |-> IF how = "null" \/ (how = "mixed" /\ i = 1)
                    THEN <<>> ELSE <<Wild>>]

\* strncmp(packet + 3, "syscall", 7) == 0.  A packet shorter than 3 bytes
\* is compared past its terminator, in bytes the buffer held before
\* (m.ub.stale: whether those happen to match).
syscall_at_3(m, packet) ==
    IF Len(CStr(packet)) < 3 THEN m.ub.stale
    ELSE StrNEq(Drop(CStr(packet), 3), syscall)

push_notification(m, packet, packet_size) ==
    IF m.status # "ok" \/ ~syscall_at_3(m, packet) THEN m
    ELSE
    LET slots0 == IF m.notifications_size = 0
                  THEN [i \in 1..InitialSlots |-> <<>>]
                  ELSE m.notifications
        full   == first_null(slots0) = 0
        slots1 == IF full
                  THEN slots0 \o fresh_slots(m.ub.fresh, Len(slots0))
                  ELSE slots0
        idx    == first_null(slots1)
    IN  IF idx = 0
        THEN \* no NULL in the doubled array either: it doubles until
             \* realloc fails
             [m EXCEPT !.notifications = slots1,
                       !.notifications_size = Len(slots1),
                       !.status = "crash"]
        ELSE [m EXCEPT !.notifications =
                           [slots1 EXCEPT ![idx] = <<Take(packet, packet_size)>>],
                       !.notifications_size = Len(slots1)]

\* pop_notification: the first used slot.  The copy holds packet_size bytes
\* and no terminator, so strlen runs on into the bytes behind it
\* (m.ub.tail, up to the next NUL).
pop_notification(m) ==
    LET idx == IF m.notifications_size = 0 THEN 0
               ELSE first_used(m.notifications)
    IN  IF m.status # "ok" THEN m
        ELSE IF idx = 0
        THEN [m EXCEPT !.reply = <<>>, !.size = 0, !.ok = FALSE]
        ELSE IF m.notifications[idx] = <<Wild>>
        THEN [m EXCEPT !.notifications[idx] = <<>>, !.status = "crash"]
        ELSE LET str == CStr(m.notifications[idx][1] \o m.ub.tail)
             IN  [m EXCEPT !.notifications[idx] = <<>>,
                           !.reply = str, !.size = Len(str), !.ok = TRUE]

---------------------------------------------------------------------------
(* gdb_send, gdb_recv: protocol.c 329-342, 544-573.                        *)

\* The bytes before the first '+' are each read as a NACK and answered by
\* sending the packet again.  At EOF fgetc keeps returning EOF, which is no
\* '+': the loop never ends ("spin").
plus_at(in) ==
    IF \E i \in 1..Len(in) : in[i] = PLUS
    THEN CHOOSE i \in 1..Len(in) :
             in[i] = PLUS /\ \A j \in 1..(i - 1) : in[j] # PLUS
    ELSE 0

\* A gdb_send that takes any byte for the ack.
gdb_send_any_ack(m, command, size) ==
    IF m.status # "ok" THEN m
    ELSE IF ~m.ack \/ m.in = <<>>
    THEN [m EXCEPT !.out = @ \o send_packet(<<>>, command, size)]
    ELSE [m EXCEPT !.in = Tail(@),
                   !.out = @ \o send_packet(<<>>, command, size)]

gdb_send(m, command, size) ==
    LET frame == send_packet(<<>>, command, size)
        k     == plus_at(m.in)
    IN  IF m.status # "ok" THEN m
        ELSE IF ~m.ack THEN [m EXCEPT !.out = @ \o frame]
        ELSE IF k = 0
        THEN [m EXCEPT !.in = <<>>,
                       !.out = @ \o Times(frame, Len(m.in) + 2),
                       !.status = "spin"]
        ELSE [m EXCEPT !.in = Drop(@, k),
                       !.out = @ \o Times(frame, k)]

\* The tail of gdb_recv, from the packet r that recv_packet returned: the
\* ack or nack, and the next pass of the loop after a nack.
RECURSIVE gdb_recv(_, _)
RECURSIVE gdb_recv_ack(_, _, _)
gdb_recv_ack(m, r, want_stop) ==
    LET m2 == [m EXCEPT !.in = r.in, !.status = r.status,
                        !.reply = r.reply, !.size = r.size]
    IN  IF r.status # "ok" \/ ~m.ack THEN m2
        ELSE IF r.sum_ok THEN [m2 EXCEPT !.out = Append(@, PLUS)]
        ELSE Bind([m2 EXCEPT !.out = Append(@, MINUS)],
                  LAMBDA m3 : gdb_recv(m3, want_stop))

\* gdb_recv: a "T05syscall" packet that arrives while no stop is wanted is
\* pushed and one more packet is received in its place (an if, once).
gdb_recv(m, want_stop) ==
    IF m.status # "ok" THEN m
    ELSE
    Bind(recv_packet(m.in), LAMBDA r1 :
        IF r1.status = "ok" /\ ~want_stop /\ StrNEq(r1.reply, T05syscall)
        THEN Bind(push_notification([m EXCEPT !.in = r1.in],
                                    r1.reply, r1.size), LAMBDA mp :
                 IF mp.status # "ok" THEN mp
                 ELSE Bind(recv_packet(mp.in), LAMBDA r2 :
                          gdb_recv_ack(mp, r2, want_stop)))
        ELSE gdb_recv_ack(m, r1, want_stop))

\* A gdb_start_noack that turns the acks off whatever the reply is.
gdb_start_noack_any_reply(m) ==
    Bind(gdb_send(m, lit_QStartNoAckMode, Len(lit_QStartNoAckMode)),
        LAMBDA m1 :
        Bind(gdb_recv(m1, FALSE), LAMBDA m2 :
            IF m2.status # "ok" THEN m2
            ELSE [m2 EXCEPT !.ok = TRUE, !.ack = FALSE]))

\* gdb_start_noack: the result is m.ok.  It is declared bool and returns
\* ok ? "OK" : "", two pointers that are not null: the result is true.
gdb_start_noack(m) ==
    Bind(gdb_send(m, lit_QStartNoAckMode, Len(lit_QStartNoAckMode)),
        LAMBDA m1 :
        Bind(gdb_recv(m1, FALSE), LAMBDA m2 :
            IF m2.status # "ok" THEN m2
            ELSE [m2 EXCEPT !.ok = TRUE,
                            !.ack = IF m2.size = 2 /\ StrEq(m2.reply, OK)
                                    THEN FALSE ELSE @]))

---------------------------------------------------------------------------
(* From the variables to the machine record and back.                      *)

NoUb == [fresh |-> "null", stale |-> FALSE, tail |-> <<>>, dropped |-> "zeroed"]

\* The remote stub before it has anything to report.
server0 == [pending |-> <<>>, async |-> <<>>, siginfo |-> <<>>,
            script |-> <<>>, threads |-> <<>>]

\* struct gdb_stop_reply as gdb_recv_stop initializes it.
stop0 == [reply |-> <<>>, size |-> 0, type |-> "gdb_stop_unknown",
          code |-> 0 - 1, pid |-> 0 - 1, tid |-> 0 - 1]

Machine(ub) ==
    [in |-> conn.in, out |-> conn.out, ack |-> conn.ack,
     non_stop |-> conn.non_stop,
     notifications |-> notifications,
     notifications_size |-> notifications_size,
     tcbtab |-> tcbtab, current_tcp |-> current_tcp, caps |-> gdb_caps,
     status |-> status, ext |-> ext, ub |-> ub, srv |-> server,
     reply |-> <<>>, size |-> 0, ok |-> FALSE,
     stop |-> stop0, tcp |-> 0, live |-> FALSE, gone |-> <<>>,
     tid |-> 0 - 1, gdb_sig |-> 0,
     ret |-> "none", sent |-> <<>>, handled |-> <<>>]

Commit(m) ==
    /\ conn' = [in |-> m.in, out |-> m.out, ack |-> m.ack,
                non_stop |-> m.non_stop]
    /\ notifications' = m.notifications
    /\ notifications_size' = m.notifications_size
    /\ tcbtab' = m.tcbtab
    /\ current_tcp' = m.current_tcp
    /\ gdb_caps' = m.caps
    /\ status' = m.status
    /\ ext' = m.ext
    /\ server' = m.srv

\* gdb_begin: calloc'd connection with ack on; the queue's statics are zero.
conn0 == [in |-> <<>>, out |-> <<PLUS>>, ack |-> TRUE, non_stop |-> FALSE]
caps0 == [extended |-> FALSE, multiprocess |-> FALSE, vcont |-> FALSE]

InitIdle ==
    /\ conn = conn0
    /\ notifications = <<>>
    /\ notifications_size = 0
    /\ tcbtab = <<>>
    /\ current_tcp = 0
    /\ gdb_caps = caps0
    /\ status = "ok"
    /\ ext = <<>>
    /\ server = server0

---------------------------------------------------------------------------
(* SpecQueue: push_notification and pop_notification called in any order.  *)

MaxPush == 4

EntryStop  == Str(<<"T", "0", "5", "s", "y", "s", "c", "a", "l", "l", "_", "e", "n", "t", "r", "y", ":", "3", "b", ";", "t", "h", "r", "e", "a", "d", ":", "p", "7", "b", ".", "7", "b", ";">>)
ReturnStop == Str(<<"T", "0", "5", "s", "y", "s", "c", "a", "l", "l", "_", "r", "e", "t", "u", "r", "n", ":", "3", "b", ";", "t", "h", "r", "e", "a", "d", ":", "p", "7", "b", ".", "7", "b", ";">>)
SegvStop   == Str(<<"T", "0", "b", "t", "h", "r", "e", "a", "d", ":", "p", "7", "b", ".", "7", "c", ";">>)

QueuePayloads == {EntryStop, ReturnStop, SegvStop}
UbFresh == {"null", "wild", "mixed"}
UbTails == {<<>>, <<ch_x>>}

\* The queue after n pushes of EntryStop and no pop.
filled(n) == [i \in 1..InitialSlots |-> IF i <= n THEN <<EntryStop>> ELSE <<>>]

InitQueue ==
    /\ conn = conn0
    /\ tcbtab = <<>>
    /\ current_tcp = 0
    /\ gdb_caps = caps0
    /\ status = "ok"
    /\ ext = <<>>
    /\ server = server0
    /\ call = [op |-> "none"]
    /\ \E n \in {0, InitialSlots - 1} :
          /\ hist = [pushes |-> 0, pending |-> [i \in 1..n |-> EntryStop]]
          /\ notifications = IF n = 0 THEN <<>> ELSE filled(n)
          /\ notifications_size = IF n = 0 THEN 0 ELSE InitialSlots

Push ==
    /\ status = "ok"
    /\ hist.pushes < MaxPush
    /\ \E p \in QueuePayloads, fresh \in UbFresh :
          LET m == push_notification(
                       Machine([NoUb EXCEPT !.fresh = fresh]), p, Len(p))
              stored == syscall_at_3(Machine(NoUb), p)
          IN  /\ Commit(m)
              /\ call' = [op |-> "push", packet |-> p, stored |-> stored]
              /\ hist' = [pushes |-> hist.pushes + 1,
                          pending |-> IF stored THEN Append(hist.pending, p)
                                      ELSE hist.pending]

\* s without the first element equal to x.
RECURSIVE RemoveFirst(_, _)
RemoveFirst(s, x) ==
    IF s = <<>> THEN s
    ELSE IF Head(s) = x THEN Tail(s)
    ELSE <<Head(s)>> \o RemoveFirst(Tail(s), x)

Pop ==
    /\ status = "ok"
    /\ \E tail \in UbTails :
          LET m == pop_notification(Machine([NoUb EXCEPT !.tail = tail]))
              idx == first_used(notifications)
          IN  /\ Commit(m)
              /\ call' = [op |-> "pop", none |-> ~m.ok, reply |-> m.reply,
                          size |-> m.size, tail |-> tail,
                          entry |-> IF idx = 0 THEN <<>>
                                    ELSE notifications[idx],
                          oldest |-> IF hist.pending = <<>> THEN <<>>
                                     ELSE <<Head(hist.pending)>>]
              /\ hist' = [hist EXCEPT !.pending =
                              IF idx = 0 THEN @
                              ELSE RemoveFirst(@, notifications[idx][1])]

NextQueue == Push \/ Pop

SpecQueue == InitQueue /\ [][NextQueue]_vars

\* C2 (as claimed): every pop_notification returns the oldest entry that
\* was stored and not yet popped, and none exactly when there is no such
\* entry.
C2_FifoDelivery ==
    call.op = "pop" =>
        /\ call.entry = call.oldest
        /\ call.none <=> (call.oldest = <<>>)

---------------------------------------------------------------------------
(* SpecCodec: send_packet and recv_packet on their own.  A payload is any  *)
(* byte sequence of at most MaxPayload bytes over CodecBytes, which holds  *)
(* every byte recv_packet treats specially, a NUL, a valid RLE count (' ') *)
(* and ordinary bytes.                                                     *)

MaxPayload == 3

CodecBytes ==
    {DOLLAR, HASH, PERCENT, RBRACE, STAR, 0, ch_space, ch_A, ch_0}

RECURSIVE SeqsUpTo(_, _)
SeqsUpTo(S, n) ==
    IF n = 0 THEN {<<>>}
    ELSE LET shorter == SeqsUpTo(S, n - 1)
         IN  shorter \cup {Append(t, x) : t \in {u \in shorter : Len(u) = n - 1},
                                          x \in S}

InitCodec ==
    /\ InitIdle
    /\ call = [op |-> "none"]
    /\ \E p \in SeqsUpTo(CodecBytes, MaxPayload) : hist = [bytes |-> p]

\* The frame send_packet writes for the payload, fed to recv_packet.
Loopback ==
    /\ call.op = "none"
    /\ LET p     == hist.bytes
           frame == send_packet(<<>>, p, Len(p))
           r     == recv_packet(frame)
       IN  call' = [op |-> "loopback", p |-> p, frame |-> frame,
                    status |-> r.status, reply |-> r.reply, size |-> r.size,
                    sum_ok |-> r.sum_ok, rest |-> r.in]
    /\ UNCHANGED <<conn, notifications, notifications_size, tcbtab,
                   current_tcp, gdb_caps, status, ext, server, hist>>

NextCodec == Loopback

SpecCodec == InitCodec /\ [][NextCodec]_vars

RoundTrips ==
    /\ call.status = "ok"
    /\ call.sum_ok
    /\ call.reply = call.p
    /\ call.size = Len(call.p)

\* The payloads recv_packet reads back as written: none of the bytes that
\* start, end, escape or restart a packet, and no '*' that follows a
\* payload byte and is followed by a valid repeat count.
RawSafe(p) ==
    /\ \A i \in 1..Len(p) : p[i] \notin {DOLLAR, HASH, PERCENT, RBRACE}
    /\ \A i \in 1..Len(p) :
          p[i] = STAR => i = 1 \/ i = Len(p) \/ ~rle_count_ok(p[i + 1])

\* C3 (as claimed): for any byte sequence p, the frame send_packet writes
\* for p is received by recv_packet as a checksum-ok payload equal to p.
C3_RoundTripAnyPayload ==
    call.op = "loopback" => RoundTrips

\* C3 (amended): the frame written for p is received as a checksum-ok
\* payload equal to p exactly when p is raw-safe; send_packet escapes
\* nothing.
C3_RoundTripRawSafe ==
    call.op = "loopback" => (RoundTrips <=> RawSafe(call.p))

C3_Witness ==
    /\ call.op = "loopback"
    /\ Len(call.p) = MaxPayload
    /\ STAR \in {call.p[i] : i \in 1..Len(call.p)}
    /\ 0 \in {call.p[i] : i \in 1..Len(call.p)}
    /\ RawSafe(call.p)
    /\ RoundTrips

---------------------------------------------------------------------------
(* SpecLink: gdb_send, gdb_recv and gdb_start_noack on a connection whose  *)
(* ingress is any                                                          *)
(* sequence of at most MaxItems items the server may write: ack bytes,     *)
(* replies and stop notifications, with a right or a wrong checksum.       *)

MaxItems == 3
MaxCalls == 2

\* The wire bytes of a packet: start byte ('$', or '%' and "Stop:" for a
\* notification), payload, '#', and the two checksum characters ("00" when
\* the checksum is to be wrong; no payload of the model sums to 0).
Wire(start, payload, good) ==
    LET body == IF start = PERCENT THEN StopColon \o payload ELSE payload
    IN  <<start>> \o body \o <<HASH>>
            \o (IF good THEN gdb_encode_hex(SumBytes(body))
                ELSE <<ch_0, ch_0>>)

Frame(start, payload, good) ==
    [kind |-> "frame", start |-> start, payload |-> payload, good |-> good,
     wire |-> Wire(start, payload, good)]

AckByte(c) ==
    [kind |-> "ack", start |-> c, payload |-> <<>>, good |-> TRUE,
     wire |-> <<c>>]

LinkItems ==
    {AckByte(PLUS), AckByte(MINUS),
     Frame(DOLLAR, OK, TRUE), Frame(DOLLAR, OK, FALSE),
     Frame(DOLLAR, <<>>, TRUE),
     Frame(PERCENT, EntryStop, TRUE), Frame(PERCENT, EntryStop, FALSE),
     Frame(PERCENT, SegvStop, TRUE)}

ScriptWire(script) == Flatten([i \in 1..Len(script) |-> script[i].wire])

\* The items of the script that n bytes read from its wire cover.
RECURSIVE ItemsRead(_, _)
ItemsRead(script, n) ==
    IF n <= 0 \/ script = <<>> THEN <<>>
    ELSE <<Head(script)>> \o ItemsRead(Tail(script), n - Len(Head(script).wire))

FramesOf(items) == SelectSeq(items, LAMBDA it : it.kind = "frame")

g_cmd == Str(<<"g">>)

InitLink ==
    /\ notifications = <<>>
    /\ notifications_size = 0
    /\ tcbtab = <<>>
    /\ current_tcp = 0
    /\ gdb_caps = caps0
    /\ status = "ok"
    /\ ext = <<>>
    /\ server = server0
    /\ call = [op |-> "none"]
    /\ \E script \in SeqsUpTo(LinkItems, MaxItems), ack \in BOOLEAN :
          /\ conn = [conn0 EXCEPT
                        !.in = ScriptWire(script), !.ack = ack,
                        !.non_stop = \E i \in 1..Len(script) :
                                         script[i].start = PERCENT]
          /\ hist = [calls |-> 0, script |-> script, noack |-> "none"]

\* What a call read and wrote, for the claims.
LinkCall(op, want_stop, m) ==
    LET nread == Len(conn.in) - Len(m.in)
        items == ItemsRead(hist.script, nread)
    IN  /\ call' = [op |-> op, want_stop |-> want_stop, ack |-> conn.ack,
                    status |-> m.status, reply |-> m.reply, size |-> m.size,
                    read |-> items,
                    bytes_read |-> Take(conn.in, nread),
                    written |-> Drop(m.out, Len(conn.out)),
                    queued |-> Len(SelectSeq(m.notifications,
                                             LAMBDA e : e # <<>>))
                               - Len(SelectSeq(notifications,
                                               LAMBDA e : e # <<>>))]
        /\ hist' = [calls |-> hist.calls + 1,
                    script |-> Drop(hist.script, Len(items)),
                    noack |-> IF op # "noack" \/ ~conn.ack
                                 \/ m.status # "ok"
                              THEN hist.noack
                              ELSE IF m.ack THEN "refused" ELSE "accepted"]

Send ==
    /\ status = "ok"
    /\ hist.calls < MaxCalls
    /\ \E m \in {gdb_send(Machine(NoUb), g_cmd, Len(g_cmd))} :
          Commit(m) /\ LinkCall("send", FALSE, m)

Recv ==
    /\ status = "ok"
    /\ hist.calls < MaxCalls
    /\ \E want_stop \in BOOLEAN :
          \E m \in {gdb_recv(Machine(NoUb), want_stop)} :
             Commit(m) /\ LinkCall("recv", want_stop, m)

\* gdb_start_noack, as gdb_init calls it on the new connection.
NoAck ==
    /\ status = "ok"
    /\ hist.calls = 0
    /\ conn.ack
    /\ \E m \in {gdb_start_noack(Machine(NoUb))} :
          Commit(m) /\ LinkCall("noack", FALSE, m)

NextLink == Send \/ Recv \/ NoAck

SpecLink == InitLink /\ [][NextLink]_vars

\* The frames among the items a call read, and how often c was written.
CallFrames == FramesOf(call.read)
Written(c) == Len(SelectSeq(call.written, LAMBDA b : b = c))
Notified(frames) == SelectSeq(frames, LAMBDA it : it.start = PERCENT)

\* C1: a gdb_recv with want_stop = false that returns hands its caller a
\* command reply, never a stop notification, and every stop notification it
\* read on the way is stored in the queue.
C1_NotificationsNeverReturned ==
    (call.op = "recv" /\ ~call.want_stop /\ call.status = "ok")
    => /\ CallFrames # <<>>
       /\ CallFrames[Len(CallFrames)].start = DOLLAR
       /\ call.queued = Len(Notified(CallFrames))

g_frame == Str(<<"$", "g", "#", "6", "7">>)

\* C4: a gdb_send that returns with acks enabled has written its frame once
\* for every byte it read, each byte before the last was no '+' and the last
\* one was '+'; with acks disabled it has written the frame once and read
\* nothing.  A gdb_send that has not read a '+' has not returned.
C4_SendUntilAcked ==
    call.op = "send"
    => /\ (call.status = "ok" /\ call.ack)
          => /\ call.bytes_read # <<>>
             /\ \A i \in 1..Len(call.bytes_read) :
                   (call.bytes_read[i] = PLUS) <=> (i = Len(call.bytes_read))
             /\ call.written = Times(g_frame, Len(call.bytes_read))
       /\ (call.status = "ok" /\ ~call.ack)
          => /\ call.bytes_read = <<>>
             /\ call.written = g_frame
       /\ (call.ack /\ PLUS \notin {call.bytes_read[i] :
                                       i \in 1..Len(call.bytes_read)})
          => call.status = "spin"

\* A send that was nacked once and then acked.
C4_Witness ==
    /\ call.op = "send" /\ call.ack /\ call.status = "ok"
    /\ call.bytes_read = <<MINUS, PLUS>>
    /\ call.written = g_frame \o g_frame

\* C5: a gdb_recv that returns with acks enabled returns a packet whose
\* checksum matched, has written one '-' for every mismatching packet it
\* read and one '+'; with acks disabled it returns the first packet it read
\* that it did not store in the queue, and has written nothing.
C5_RecvAcksChecksum ==
    (call.op = "recv" /\ call.status = "ok")
    => /\ CallFrames # <<>>
       /\ call.ack
          => /\ CallFrames[Len(CallFrames)].good
             /\ call.reply = CallFrames[Len(CallFrames)].payload
             /\ Written(MINUS)
                   = Len(SelectSeq(CallFrames, LAMBDA it : ~it.good))
             /\ Written(PLUS) = 1
             /\ Len(call.written) = Written(MINUS) + 1
       /\ ~call.ack
          => /\ call.reply = CallFrames[Len(CallFrames)].payload
             /\ call.queued = Len(CallFrames) - 1
             /\ call.written = <<>>

---------------------------------------------------------------------------
(* Stop replies: gdbserver.c 65-87, 163-327.                               *)

COLON == Ord(":")
SEMI  == Ord(";")
DOT   == Ord(".")

\* s[i] of a buffer that ends with its terminator.
At(s, i) == IF i >= 1 /\ i <= Len(s) THEN s[i] ELSE 0

\* strchr: the index of the first c in s, 0 when there is none.
IndexOf(s, c) ==
    IF \E i \in 1..Len(s) : s[i] = c
    THEN CHOOSE i \in 1..Len(s) : s[i] = c /\ \A j \in 1..(i - 1) : s[j] # c
    ELSE 0

\* strstr: the index of the first occurrence of pat in s, 0 when none.
FindSub(s, pat) ==
    LET at(i) == SubSeq(s, i, i + Len(pat) - 1) = pat
        I     == {i \in 1..(Len(s) - Len(pat) + 1) : at(i)}
    IN  IF I = {} THEN 0 ELSE CHOOSE i \in I : \A j \in I : i <= j

\* The tokens strtok_r(s, d) returns one after the other: the maximal runs
\* of bytes other than d.
strtok_all(s, d) ==
    LET D       == {0, Len(s) + 1} \cup {i \in 1..Len(s) : s[i] = d}
        next(a) == CHOOSE b \in D : b > a /\ \A e \in D : e > a => b <= e
        A       == {a \in D : a <= Len(s) /\ next(a) > a + 1}
        nth(k)  == CHOOSE a \in A : Cardinality({e \in A : e < a}) = k - 1
    IN  [k \in 1..Cardinality(A) |->
            SubSeq(s, nth(k) + 1, next(nth(k)) - 1)]

\* A gdb_parse_thread that takes the pid for the tid.
gdb_parse_thread_no_dot(id) ==
    LET v == gdb_decode_hex_str(IF At(id, 1) = ch_p THEN Drop(id, 1)
                                ELSE id)
    IN  [pid |-> v, tid |-> v]

\* gdb_parse_thread: "pPID.TID", "pPID" or "TID".
gdb_parse_thread(id) ==
    IF At(id, 1) = ch_p
    THEN LET rest == Drop(id, 1)
             pid  == gdb_decode_hex_str(rest)
             dot  == IndexOf(rest, DOT)
         IN  [pid |-> pid,
              tid |-> IF dot = 0 THEN pid
                      ELSE gdb_decode_hex_str(Drop(rest, dot))]
    ELSE [pid |-> gdb_decode_hex_str(id), tid |-> gdb_decode_hex_str(id)]

GDB_SIGNAL_0    == 0
GDB_SIGNAL_TRAP == 5

\* A loop body that promotes a stop of any kind on a syscall pair.
signal_pair_any_kind(stop, nr) ==
    LET lead == CHOOSE k \in 0..Len(nr) :
                   /\ \A i \in 1..k : nr[i] = COLON
                   /\ k = Len(nr) \/ nr[k + 1] # COLON
        rest == Drop(nr, lead)
        c    == IndexOf(rest, COLON)
        n    == IF c = 0 THEN rest ELSE Take(rest, c - 1)
        r    == IF c = 0 THEN <<>> ELSE Drop(rest, c)
    IN  IF rest = <<>> \/ r = <<>> THEN stop
        ELSE IF n = lit_thread
        THEN [stop EXCEPT !.pid = gdb_parse_thread(r).pid,
                          !.tid = gdb_parse_thread(r).tid]
        ELSE IF n = lit_syscall_entry
        THEN [stop EXCEPT !.type = "gdb_stop_syscall_entry",
                          !.code = gdb_decode_hex_str(r)]
        ELSE IF n = lit_syscall_return
        THEN [stop EXCEPT !.type = "gdb_stop_syscall_return",
                          !.code = gdb_decode_hex_str(r)]
        ELSE stop

\* The body of gdb_recv_signal's loop for the token nr: n = strtok(nr, ":")
\* skips leading colons and ends at the next one, r = strtok(NULL, "") is
\* what follows it, NULL when nothing does.
signal_pair(stop, nr) ==
    LET lead == CHOOSE k \in 0..Len(nr) :
                   /\ \A i \in 1..k : nr[i] = COLON
                   /\ k = Len(nr) \/ nr[k + 1] # COLON
        rest == Drop(nr, lead)
        c    == IndexOf(rest, COLON)
        n    == IF c = 0 THEN rest ELSE Take(rest, c - 1)
        r    == IF c = 0 THEN <<>> ELSE Drop(rest, c)
    IN  IF rest = <<>> \/ r = <<>> THEN stop
        ELSE IF n = lit_thread
        THEN [stop EXCEPT !.pid = gdb_parse_thread(r).pid,
                          !.tid = gdb_parse_thread(r).tid]
        ELSE IF n = lit_syscall_entry
        THEN IF stop.type = "gdb_stop_trap"
             THEN [stop EXCEPT !.type = "gdb_stop_syscall_entry",
                               !.code = gdb_decode_hex_str(r)]
             ELSE stop
        ELSE IF n = lit_syscall_return
        THEN IF stop.type = "gdb_stop_trap"
             THEN [stop EXCEPT !.type = "gdb_stop_syscall_return",
                               !.code = gdb_decode_hex_str(r)]
             ELSE stop
        ELSE stop

RECURSIVE signal_pairs(_, _, _)
signal_pairs(stop, toks, k) ==
    IF k > Len(toks) THEN stop
    ELSE Bind(signal_pair(stop, toks[k]),
              LAMBDA s : signal_pairs(s, toks, k + 1))

gdb_recv_signal(stop) ==
    LET reply == CStr(stop.reply)
        code  == gdb_decode_hex_n(Drop(reply, 1), 2)
        type  == IF code = GDB_SIGNAL_TRAP \/ code = GDB_SIGNAL_0
                 THEN "gdb_stop_trap" ELSE "gdb_stop_signal"
    IN  Bind(strtok_all(Drop(reply, 3), SEMI), LAMBDA toks :
            signal_pairs([stop EXCEPT !.code = code, !.type = type],
                         toks, 1))

gdb_recv_exit(stop) ==
    LET reply   == CStr(stop.reply)
        process == FindSub(reply, lit_process)
        s1 == [stop EXCEPT
                  !.type = IF At(reply, 1) = ch_W THEN "gdb_stop_exited"
                           ELSE "gdb_stop_terminated",
                  !.code = gdb_decode_hex_str(Drop(reply, 1))]
    IN  IF process = 0 THEN s1
        ELSE [s1 EXCEPT
                 !.pid = gdb_decode_hex_str(Drop(reply, process + 8)),
                 !.tid = gdb_decode_hex_str(Drop(reply, process + 8))]

\* The switch at the end of gdb_recv_stop.
stop_switch(stop) ==
    LET c == IF stop.size >= 3 THEN At(stop.reply, 1) ELSE 0
    IN  IF c = ch_E
        THEN [stop EXCEPT !.type = "gdb_stop_error",
                          !.code = gdb_decode_hex_n(Drop(CStr(stop.reply), 1), 2)]
        ELSE IF c = ch_S \/ c = ch_T THEN gdb_recv_signal(stop)
        ELSE IF c = ch_W \/ c = ch_X THEN gdb_recv_exit(stop)
        ELSE [stop EXCEPT !.type = "gdb_stop_unknown"]

---------------------------------------------------------------------------
(* The remote stub, as far as the client sees it.  It answers a command   *)
(* when it has read it; with acks enabled it acks the command first.  In   *)
(* non-stop mode it reports the stops it has pending one per vStopped and  *)
(* may write a new notification (server.async) ahead of any other answer.  *)
(* server.script, when it is not empty, holds what the stub writes in      *)
(* answer to the next commands, one element per command.                   *)
(* m.sent lists the commands the client has sent in the present call.      *)

RegsReply == Str(<<"0", "0", "0", "0", "0", "0", "0", "0">>)

IsCont(cmd) ==
    \/ cmd = lit_c \/ cmd = lit_vCont_c
    \/ (Len(cmd) = 3 /\ At(cmd, 1) = ch_C)
    \/ IsPrefix(lit_vCont_C, cmd)

server_ack(m) ==
    IF m.status = "ok" /\ m.ack THEN [m EXCEPT !.in = Append(@, PLUS)] ELSE m

server_reply(m, cmd) ==
    IF m.status # "ok" THEN m
    ELSE
    LET srv    == m.srv
        polled == cmd = lit_vStopped
        inject == srv.async # <<>> /\ ~polled /\ ~IsCont(cmd)
        note   == IF inject THEN Wire(PERCENT, Head(srv.async), TRUE)
                  ELSE <<>>
        listing == cmd \in {lit_qfThreadInfo, lit_qsThreadInfo}
        answer == IF IsCont(cmd) THEN <<>>
                  ELSE IF srv.script # <<>> THEN Head(srv.script)
                  ELSE IF listing /\ srv.threads # <<>>
                  THEN Wire(DOLLAR, Head(srv.threads), TRUE)
                  ELSE IF cmd = lit_g THEN Wire(DOLLAR, RegsReply, TRUE)
                  ELSE IF IsPrefix(lit_qXfer, cmd)
                  THEN Wire(DOLLAR, srv.siginfo, TRUE)
                  ELSE IF polled /\ srv.pending # <<>>
                  THEN Wire(DOLLAR, Head(srv.pending), TRUE)
                  ELSE Wire(DOLLAR, OK, TRUE)
    IN  [m EXCEPT !.in = @ \o note \o answer,
                  !.sent = Append(@, cmd),
                  !.srv = [srv EXCEPT
                              !.async = IF inject THEN Tail(@) ELSE @,
                              !.script = IF ~IsCont(cmd) /\ @ # <<>>
                                         THEN Tail(@) ELSE @,
                              !.threads = IF srv.script = <<>> /\ listing
                                             /\ @ # <<>>
                                          THEN Tail(@) ELSE @,
                              !.pending = IF srv.script = <<>> /\ polled
                                             /\ @ # <<>>
                                          THEN Tail(@) ELSE @]]

\* gdb_send(gdb, cmd, strlen(cmd)) and what the stub does in return.
exchange(m, cmd) ==
    Bind(server_ack(m), LAMBDA m1 :
        Bind(gdb_send(m1, cmd, Len(cmd)), LAMBDA m2 : server_reply(m2, cmd)))

---------------------------------------------------------------------------
(* gdbserver.c 89-97, 245-327.                                             *)

\* gdb_ok: the result is m.ok.
gdb_ok(m) ==
    Bind(gdb_recv(m, FALSE), LAMBDA m1 :
        [m1 EXCEPT !.ok = m1.size = 2 /\ StrEq(m1.reply, OK)])

\* while (stop.reply[0] != 'T') stop.reply = gdb_recv(gdb, &stop.size, true)
RECURSIVE await_T(_)
await_T(m) ==
    IF m.status # "ok" \/ At(m.stop.reply, 1) = ch_T THEN m
    ELSE Bind(gdb_recv(m, TRUE), LAMBDA m1 :
             await_T([m1 EXCEPT !.stop.reply = m1.reply,
                                !.stop.size = m1.size]))

\* The vStopped loop: every answer but "OK" goes to push_notification.
RECURSIVE drain(_)
drain(m) ==
    IF m.status # "ok" THEN m
    ELSE Bind(exchange(m, lit_vStopped), LAMBDA m1 :
         Bind(gdb_recv(m1, TRUE), LAMBDA m2 :
             IF m2.status # "ok" \/ StrEq(m2.reply, OK) THEN m2
             ELSE Bind(push_notification(m2, m2.reply, m2.size),
                       LAMBDA m3 : drain(m3))))

\* if (gdb_has_non_stop(gdb) && !stop_reply) { ... }
non_stop_order(m) ==
    Bind(pop_notification(m), LAMBDA mp :
        IF mp.status # "ok" THEN mp
        ELSE Bind(IF mp.ok
                  THEN gdb_recv([mp EXCEPT !.stop.reply = mp.reply], FALSE)
                  ELSE IF At(mp.stop.reply, 1) = ch_T
                  THEN gdb_recv(mp, FALSE)
                  ELSE await_T(mp),
             LAMBDA m1 :
                 IF m1.status = "ok" /\ At(m1.stop.reply, 1) = ch_T
                 THEN drain(m1) ELSE m1))

\* gdb_recv_stop(stop_reply): `given` says that stop_reply is not NULL.  The
\* result is m.stop.
gdb_recv_stop(m, given, stop_reply) ==
    IF m.status # "ok" THEN m
    ELSE
    Bind(IF given THEN [m EXCEPT !.stop = stop_reply]
         ELSE Bind(gdb_recv(m, TRUE), LAMBDA m1 :
                  [m1 EXCEPT !.stop = [stop0 EXCEPT !.reply = m1.reply,
                                                    !.size = m1.size]]),
        LAMBDA m1 :
            Bind(IF m1.status = "ok" /\ m1.non_stop /\ ~given
                 THEN non_stop_order(m1) ELSE m1,
                LAMBDA m2 :
                    IF m2.status # "ok" THEN m2
                    ELSE [m2 EXCEPT !.stop = stop_switch(m2.stop)]))

---------------------------------------------------------------------------
(* The tracer's side of the interfaces gdbserver.c consumes: the thread    *)
(* table, the decoder and the printers.  A thread record is                *)
(* [pid, flags, scno, s_prev_ent]; a pointer to it is its pid, 0 is NULL.  *)
(* What they were called with is appended to m.ext.                        *)

Event(ev, pid, a, b) == [ev |-> ev, pid |-> pid, a |-> a, b |-> b]

pid2tcb(m, pid) == IF pid > 0 /\ pid \in DOMAIN m.tcbtab THEN pid ELSE 0

alloctcb(m, pid) ==
    [m EXCEPT !.tcbtab = [p \in DOMAIN @ \cup {pid} |->
                             IF p = pid
                             THEN [pid |-> pid, flags |-> {}, scno |-> 0,
                                   s_prev_ent |-> FALSE]
                             ELSE @[p]]]

\* droptcb: the record is gone; m.gone keeps what it held.
droptcb(m, tcp) ==
    [m EXCEPT !.tcbtab = [p \in DOMAIN @ \ {tcp} |-> @[p]],
              !.gone = m.tcbtab[tcp],
              !.live = FALSE,
              !.current_tcp = IF @ = tcp THEN 0 ELSE @,
              !.ext = Append(@, Event("droptcb", tcp, 0, 0))]

\* The fields of *tcp.  After droptcb the pointer dangles: what is read
\* through it is the old record or zeroes (m.ub.dropped), what is written
\* through it is lost.
tcb(m) ==
    IF m.live THEN m.tcbtab[m.tcp]
    ELSE IF m.ub.dropped = "stale" THEN m.gone
    ELSE [pid |-> 0, flags |-> {}, scno |-> 0, s_prev_ent |-> FALSE]

set_tcb(m, rec) ==
    IF m.live THEN [m EXCEPT !.tcbtab[m.tcp] = rec]
    ELSE [m EXCEPT !.ext = Append(@, Event("write_after_drop", m.tcp, 0, 0))]

exiting(m) == "TCB_INSYSCALL" \in tcb(m).flags

\* trace_syscall: decodes the entry or the exit of tcp->scno, and moves the
\* thread into or out of the syscall.
trace_syscall(m) ==
    Bind([m EXCEPT !.ext = Append(@, Event("trace_syscall", m.tcp,
                                           tcb(m).scno,
                                           IF exiting(m) THEN 1 ELSE 0))],
        LAMBDA m1 :
            set_tcb(m1, [tcb(m1) EXCEPT
                            !.flags = IF "TCB_INSYSCALL" \in @
                                      THEN @ \ {"TCB_INSYSCALL"}
                                      ELSE @ \cup {"TCB_INSYSCALL"}]))

W_EXITCODE(ret, sig) == IF sig < 0 THEN sig ELSE ret * 256 + sig

\* signals.def and the host's signal names, for the signals of the model.
GDB_SIGNAL_LAST == 151
nsignals == 32
SUPPORTED_PERSONALITIES == 1

gdb_signal_names ==
    <<"SIGHUP", "SIGINT", "SIGQUIT", "SIGILL", "SIGTRAP", "SIGABRT",
      "SIGEMT", "SIGFPE", "SIGKILL", "SIGBUS", "SIGSEGV", "SIGSYS",
      "SIGPIPE", "SIGALRM", "SIGTERM", "SIGURG", "SIGSTOP", "SIGTSTP",
      "SIGCONT", "SIGCHLD", "SIGTTIN", "SIGTTOU", "SIGIO", "SIGXCPU",
      "SIGXFSZ", "SIGVTALRM", "SIGPROF", "SIGWINCH", "SIGLOST", "SIGUSR1",
      "SIGUSR2", "SIGPWR">>

signame ==
    <<"SIGHUP", "SIGINT", "SIGQUIT", "SIGILL", "SIGTRAP", "SIGABRT",
      "SIGBUS", "SIGFPE", "SIGKILL", "SIGUSR1", "SIGSEGV", "SIGUSR2",
      "SIGPIPE", "SIGALRM", "SIGTERM", "SIGSTKFLT", "SIGCHLD", "SIGCONT",
      "SIGSTOP", "SIGTSTP", "SIGTTIN", "SIGTTOU", "SIGURG", "SIGXCPU",
      "SIGXFSZ", "SIGVTALRM", "SIGPROF", "SIGWINCH", "SIGIO", "SIGPWR",
      "SIGSYS">>

GDB_SIGNAL_REALTIME_33  == 45
GDB_SIGNAL_REALTIME_63  == 75
GDB_SIGNAL_REALTIME_32  == 77
GDB_SIGNAL_REALTIME_64  == 78
GDB_SIGNAL_REALTIME_127 == 141

\* A gdb_map_signal without the scan of the other host signals.
gdb_map_signal_no_scan(gdb_sig) ==
    IF gdb_sig = GDB_SIGNAL_0 THEN 0
    ELSE IF gdb_sig = GDB_SIGNAL_REALTIME_32 THEN 32
    ELSE IF GDB_SIGNAL_REALTIME_33 <= gdb_sig
            /\ gdb_sig <= GDB_SIGNAL_REALTIME_63
    THEN gdb_sig - GDB_SIGNAL_REALTIME_33 + 33
    ELSE IF GDB_SIGNAL_REALTIME_64 <= gdb_sig
            /\ gdb_sig <= GDB_SIGNAL_REALTIME_127
    THEN gdb_sig - GDB_SIGNAL_REALTIME_64 + 64
    ELSE IF gdb_sig > Len(gdb_signal_names) THEN 0 - 1
    ELSE IF gdb_sig < nsignals
            /\ gdb_signal_names[gdb_sig] = signame[gdb_sig]
    THEN gdb_sig
    ELSE 0 - 1

\* gdb_map_signal; the signals past the names above that are no real-time
\* signals have no host signal of their name.
gdb_map_signal(gdb_sig) ==
    IF gdb_sig = GDB_SIGNAL_0 THEN 0
    ELSE IF gdb_sig = GDB_SIGNAL_REALTIME_32 THEN 32
    ELSE IF GDB_SIGNAL_REALTIME_33 <= gdb_sig
            /\ gdb_sig <= GDB_SIGNAL_REALTIME_63
    THEN gdb_sig - GDB_SIGNAL_REALTIME_33 + 33
    ELSE IF GDB_SIGNAL_REALTIME_64 <= gdb_sig
            /\ gdb_sig <= GDB_SIGNAL_REALTIME_127
    THEN gdb_sig - GDB_SIGNAL_REALTIME_64 + 64
    ELSE IF gdb_sig > Len(gdb_signal_names) THEN 0 - 1
    ELSE IF gdb_sig < nsignals
            /\ gdb_signal_names[gdb_sig] = signame[gdb_sig]
    THEN gdb_sig
    ELSE LET S == {sig \in 1..(nsignals - 1) :
                      sig # gdb_sig
                      /\ gdb_signal_names[gdb_sig] = signame[sig]}
         IN  IF S = {} THEN 0 - 1 ELSE CHOOSE sig \in S : \A t \in S : sig <= t

\* gdb_signal_to_target, with gdb_signal_map as gdb_signal_map_init fills
\* it; tcp->currpers is 0.
gdb_signal_to_target(m, signal) ==
    IF 0 < SUPPORTED_PERSONALITIES /\ signal >= 0 /\ signal < GDB_SIGNAL_LAST
    THEN gdb_map_signal(signal)
    ELSE 0 - 1

---------------------------------------------------------------------------
(* gdbserver.c 371-405, 639-814, and gdb_xfer_read, protocol.c 601-646.    *)

\* sprintf "%x" and "%02x".
RECURSIVE fmt_x(_)
fmt_x(n) ==
    IF n < 16 THEN <<value_hex[n + 1]>>
    ELSE fmt_x(n \div 16) \o <<value_hex[(n % 16) + 1]>>

fmt_02x(n) == IF n < 16 THEN <<ch_0>> \o fmt_x(n) ELSE fmt_x(n)

error_msg(m, msg) == [m EXCEPT !.ext = Append(@, Event(msg, 0, 0, 0))]

error_msg_and_die(m, msg) ==
    [m EXCEPT !.ext = Append(@, Event(msg, 0, 0, 0)), !.status = "exit1"]

gdb_init_syscalls(m) ==
    Bind(exchange(m, lit_QCatchSyscalls_1), LAMBDA m1 :
        Bind(gdb_ok(m1), LAMBDA m2 :
            IF m2.status = "ok" /\ ~m2.ok
            THEN error_msg(m2, "couldn't enable gdb syscall catching")
            ELSE m2))

\* gdb_find_thread(tid, current): the result is m.tcp.
gdb_find_thread(m, tid, current) ==
    IF m.status # "ok" THEN m
    ELSE IF tid < 0 THEN [m EXCEPT !.tcp = 0, !.live = FALSE]
    ELSE IF pid2tcb(m, tid) # 0
    THEN [m EXCEPT !.tcp = pid2tcb(m, tid), !.live = TRUE]
    ELSE
    Bind([alloctcb(m, tid) EXCEPT
             !.tcbtab[tid].flags = @ \cup {"TCB_ATTACHED", "TCB_STARTUP"},
             !.tcp = tid, !.live = TRUE,
             !.ext = Append(@, Event("newoutf", tid, 0, 0))],
        LAMBDA m1 :
            Bind(IF current THEN [m1 EXCEPT !.ok = TRUE]
                 ELSE Bind(exchange(m1, lit_Hg \o fmt_x(tid)), LAMBDA m2 :
                      Bind(gdb_ok(m2), LAMBDA m3 :
                          IF m3.status = "ok" /\ ~m3.ok
                          THEN error_msg(m3, "couldn't set gdb to thread")
                          ELSE m3)),
                LAMBDA m4 :
                    Bind(IF m4.status = "ok" /\ m4.ok
                         THEN gdb_init_syscalls(m4) ELSE m4,
                        LAMBDA m5 : [m5 EXCEPT !.tcp = tid, !.live = TRUE])))

\* gdb_get_regs: the reply is m.reply.
gdb_get_regs(m, tid) ==
    Bind(exchange(m, lit_g), LAMBDA m1 : gdb_recv(m1, FALSE))

\* get_regs of the tracer, which fetches the registers with gdb_get_regs.
get_regs(m, tid) == gdb_get_regs(m, tid)

\* get_scno of the tracer: 1, the registers were read.
get_scno(m) == 1

\* gdb_xfer_read: m.ok says that data is returned, m.reply is the data,
\* m.size is *ret_size.  The `continue` after an 'm' chunk goes to the
\* condition of do ... while (0), which ends the loop.
gdb_xfer_read(m, object, annex) ==
    Bind(exchange(m, lit_qXfer \o object \o lit_read \o annex \o lit_colon
                         \o fmt_x(0) \o lit_comma \o fmt_x(4095)),
        LAMBDA m1 :
        Bind(gdb_recv(m1, FALSE), LAMBDA m2 :
            IF m2.status # "ok" THEN m2
            ELSE IF At(m2.reply, 1) = ch_l
            THEN [m2 EXCEPT !.reply = Drop(m2.reply, 1),
                            !.size = m2.size - 1, !.ok = TRUE]
            ELSE IF At(m2.reply, 1) = ch_E
            THEN [m2 EXCEPT !.reply = <<>>,
                            !.size = gdb_decode_hex_str(Drop(m2.reply, 1)),
                            !.ok = FALSE]
            ELSE [m2 EXCEPT !.reply = <<>>, !.size = 0, !.ok = FALSE]))

sizeof_siginfo_t == 128

\* gdb_trace 662-678: the thread the stop is for.  m.handled notes the
\* stop, and what the thread and the connection were like when it was taken
\* up.
trace_target(m) ==
    Bind(IF m.caps.multiprocess
         THEN Bind(gdb_find_thread(m, m.stop.tid, TRUE), LAMBDA m1 :
                  [m1 EXCEPT !.tid = m.stop.tid, !.current_tcp = m1.tcp])
         ELSE IF m.current_tcp # 0
         THEN [m EXCEPT !.tcp = m.current_tcp, !.live = TRUE,
                        !.tid = m.tcbtab[m.current_tcp].pid]
         ELSE [m EXCEPT !.tcp = 0, !.live = FALSE, !.tid = 0 - 1],
        LAMBDA m1 :
            IF m1.status # "ok" THEN m1
            ELSE IF m1.tid < 0 \/ m1.tcp = 0
            THEN error_msg_and_die(m1, "couldn't read tid from stop reply")
            ELSE [m1 EXCEPT !.handled = Append(@,
                     [stop |-> m1.stop, tcp |-> m1.tcp, tid |-> m1.tid,
                      flags |-> tcb(m1).flags, scno |-> tcb(m1).scno,
                      sent |-> Len(m1.sent), log |-> Len(m1.ext)])])

\* A gdb_trace 680-697 that prints the exit and keeps the thread record.
trace_exit_keep(m) ==
    IF m.stop.type = "gdb_stop_exited"
    THEN [m EXCEPT !.ext = Append(@,
             Event("print_exited", m.tid, W_EXITCODE(m.stop.code, 0), 0))]
    ELSE IF m.stop.type = "gdb_stop_terminated"
    THEN [m EXCEPT !.ext = Append(@,
             Event("print_signalled", m.tid,
                   W_EXITCODE(0, gdb_signal_to_target(m, m.stop.code)), 0))]
    ELSE m

\* gdb_trace 680-697.
trace_exit(m) ==
    IF m.stop.type = "gdb_stop_exited"
    THEN droptcb([m EXCEPT !.ext = Append(@,
                     Event("print_exited", m.tid,
                           W_EXITCODE(m.stop.code, 0), 0))], m.tcp)
    ELSE IF m.stop.type = "gdb_stop_terminated"
    THEN droptcb([m EXCEPT !.ext = Append(@,
                     Event("print_signalled", m.tid,
                           W_EXITCODE(0, gdb_signal_to_target(m, m.stop.code)),
                           0))], m.tcp)
    ELSE m

\* gdb_trace 704-713.
trace_startup(m) ==
    Bind(get_regs(m, m.tid), LAMBDA m1 :
        IF m1.status = "ok" /\ "TCB_STARTUP" \in tcb(m1).flags
        THEN set_tcb(m1, [tcb(m1) EXCEPT
                             !.flags = @ \ {"TCB_STARTUP"},
                             !.s_prev_ent = IF get_scno(m1) = 1 THEN TRUE
                                            ELSE @])
        ELSE m1)

\* A gdb_trace 718-769 that leaves TCB_INSYSCALL as it is on a syscall
\* entry and reads no siginfo.
trace_dispatch_keep_flag(m) ==
    IF m.status # "ok" THEN m
    ELSE IF m.stop.type = "gdb_stop_syscall_entry"
    THEN Bind(set_tcb(m, [tcb(m) EXCEPT !.scno = m.stop.code]),
              LAMBDA m1 : trace_syscall(m1))
    ELSE IF m.stop.type = "gdb_stop_syscall_return"
    THEN IF exiting(m)
         THEN Bind(set_tcb(m, [tcb(m) EXCEPT !.scno = m.stop.code]),
                   LAMBDA m1 : trace_syscall(m1))
         ELSE m
    ELSE IF m.stop.type = "gdb_stop_signal"
    THEN [m EXCEPT !.gdb_sig = m.stop.code]
    ELSE m

\* gdb_trace 718-769.
trace_dispatch(m) ==
    IF m.status # "ok" THEN m
    ELSE IF m.stop.type = "gdb_stop_syscall_entry"
    THEN Bind(set_tcb(m, [tcb(m) EXCEPT !.flags = @ \ {"TCB_INSYSCALL"},
                                        !.scno = m.stop.code]),
              LAMBDA m1 : trace_syscall(m1))
    ELSE IF m.stop.type = "gdb_stop_syscall_return"
    THEN IF exiting(m)
         THEN Bind(set_tcb(m, [tcb(m) EXCEPT !.scno = m.stop.code]),
                   LAMBDA m1 : trace_syscall(m1))
         ELSE m
    ELSE IF m.stop.type = "gdb_stop_signal"
    THEN Bind(gdb_xfer_read(m, lit_siginfo, <<>>), LAMBDA m1 :
             IF m1.status # "ok" THEN m1
             ELSE [m1 EXCEPT
                      !.gdb_sig = m.stop.code,
                      !.ext = Append(@,
                          Event("print_stopped", m.tcp,
                                gdb_signal_to_target(m, m.stop.code),
                                IF m1.ok /\ m1.size = sizeof_siginfo_t
                                THEN 1 ELSE 0))])
    ELSE m

\* A gdb_trace 779-801 that never injects the signal.
trace_continue_plain(m) ==
    Bind(exchange(m, IF m.caps.vcont THEN lit_vCont_c ELSE lit_c),
        LAMBDA m1 : [m1 EXCEPT !.ret = "true"])

\* gdb_trace 779-801: the result is m.ret.
trace_continue(m) ==
    Bind(exchange(m,
             IF m.gdb_sig # 0
             THEN IF m.caps.vcont
                  THEN lit_vCont_C \o fmt_02x(m.gdb_sig) \o lit_colon
                           \o fmt_x(m.tid) \o lit_semi_c
                  ELSE lit_C \o fmt_02x(m.gdb_sig)
             ELSE IF m.caps.vcont THEN lit_vCont_c ELSE lit_c),
        LAMBDA m1 : [m1 EXCEPT !.ret = "true"])

\* The do loop of gdb_trace, from the stop m.stop.
RECURSIVE trace_stops(_)
trace_stops(m) ==
    IF m.status # "ok" THEN m
    ELSE IF m.stop.size = 0
    THEN error_msg_and_die(m, "gdb server gave an empty stop reply!?")
    ELSE IF m.stop.type = "gdb_stop_unknown"
    THEN error_msg_and_die(m, "gdb server stop reply unknown")
    ELSE IF m.stop.type = "gdb_stop_error" THEN [m EXCEPT !.ret = "false"]
    ELSE
    Bind(trace_target(m), LAMBDA m1 :
        IF m1.status # "ok" THEN m1
        ELSE
        Bind(trace_exit(m1), LAMBDA m2 :
            IF ~m2.live /\ ~m2.caps.multiprocess
            THEN [m2 EXCEPT !.ret = "false"]
            ELSE
            Bind(trace_startup(m2), LAMBDA m3 :
            Bind(trace_dispatch(m3), LAMBDA m4 :
            Bind(pop_notification(m4), LAMBDA m5 :
                IF m5.status # "ok" THEN m5
                ELSE IF m5.ok
                THEN Bind(gdb_recv_stop(m5, TRUE,
                              [m5.stop EXCEPT !.reply = m5.reply,
                                              !.size = m5.size]),
                          LAMBDA m6 : trace_stops(m6))
                ELSE trace_continue(m5))))))

\* A gdb_trace that handles the stop it received and continues, without a
\* look at the queue.
gdb_trace_no_pop(m) ==
    Bind(gdb_recv_stop(m, FALSE, stop0), LAMBDA m1 :
        IF m1.status # "ok" \/ m1.stop.size = 0
           \/ m1.stop.type \in {"gdb_stop_unknown", "gdb_stop_error"}
        THEN trace_stops(m1)
        ELSE
        Bind(trace_target(m1), LAMBDA m2 :
            IF m2.status # "ok" THEN m2
            ELSE
            Bind(trace_exit(m2), LAMBDA m3 :
                IF ~m3.live /\ ~m3.caps.multiprocess
                THEN [m3 EXCEPT !.ret = "false"]
                ELSE Bind(trace_startup(m3), LAMBDA m4 :
                     Bind(trace_dispatch(m4), LAMBDA m5 :
                         trace_continue(m5))))))

gdb_trace(m) ==
    Bind(gdb_recv_stop(m, FALSE, stop0), LAMBDA m1 : trace_stops(m1))

---------------------------------------------------------------------------
(* Spec: the trace loop.  The tracee has been started and released         *)
(* (gdb_startup_child or gdb_startup_attach, then gdb_finalize_init); the  *)
(* stub reports a stop, gdb_trace handles it, and so on until gdb_trace    *)
(* returns false or the process ends.                                      *)

MaxTraces  == 2
MaxPending == 1
MaxAsync   == 1

EntryStop2 == Str(<<"T", "0", "5", "s", "y", "s", "c", "a", "l", "l", "_", "e", "n", "t", "r", "y", ":", "1", ";", "t", "h", "r", "e", "a", "d", ":", "p", "7", "b", ".", "7", "c", ";">>)
TrapStop   == Str(<<"T", "0", "5", "t", "h", "r", "e", "a", "d", ":", "p", "7", "b", ".", "7", "b", ";">>)
ExitStop   == Str(<<"W", "2", "a", ";", "p", "r", "o", "c", "e", "s", "s", ":", "7", "b">>)
TermStop   == Str(<<"X", "0", "a", ";", "p", "r", "o", "c", "e", "s", "s", ":", "7", "b">>)
ErrStop    == Str(<<"E", "0", "1">>)

\* The entries of the queue, in slot order.
Queued(slots) == SelectSeq(slots, LAMBDA e : e # <<>>)

TraceStops == {EntryStop, ReturnStop, EntryStop2, SegvStop, TrapStop,
               ExitStop, TermStop, ErrStop, <<>>}
PendingStops == {ReturnStop, SegvStop}
AsyncStops == {EntryStop2}

\* Answers to qXfer:siginfo:read: a siginfo_t, a short blob, an error.
SiginfoReplies ==
    {lit_l \o Times(<<ch_A>>, sizeof_siginfo_t), lit_lAB, lit_E01}

\* What undefined behaviour may yield in a call of gdb_trace: the bytes
\* behind a queue entry, if an entry can be popped, and the contents of a
\* dropped thread record, if gdb_trace goes on after dropping one.
TraceUb ==
    {[NoUb EXCEPT !.tail = t, !.dropped = d] :
        t \in IF Queued(notifications) # <<>> \/ server.pending # <<>>
                 \/ server.async # <<>>
              THEN UbTails ELSE {<<>>},
        d \in IF gdb_caps.multiprocess THEN {"zeroed", "stale"}
              ELSE {"zeroed"}}

Init ==
    /\ \E non_stop \in BOOLEAN :
          conn = [in |-> <<>>, out |-> <<>>, ack |-> FALSE,
                  non_stop |-> non_stop]
    /\ notifications = <<>>
    /\ notifications_size = 0
    /\ tcbtab = [p \in {123} |->
                    [pid |-> p, flags |-> {"TCB_ATTACHED", "TCB_STARTUP"},
                     scno |-> 0, s_prev_ent |-> FALSE]]
    /\ current_tcp = 123
    /\ \E multiprocess \in BOOLEAN, vcont \in BOOLEAN :
          gdb_caps = [extended |-> TRUE, multiprocess |-> multiprocess,
                      vcont |-> vcont]
    /\ status = "ok"
    /\ ext = <<>>
    /\ server = server0
    /\ call = [op |-> "released"]
    /\ hist = [calls |-> 0, stop |-> <<>>, order |-> "none",
               pending |-> <<>>, async |-> <<>>]

\* The tracee stops and the stub reports it: a stop reply, or in non-stop
\* mode the "OK" to the continuation and a notification, in either order;
\* a continuation that fails is answered with the error reply alone.
\* The stub has read what the client wrote.
ServerStops ==
    /\ status = "ok"
    /\ call.op = "released" \/ (call.op = "trace" /\ call.ret = "true")
    /\ hist.calls < MaxTraces
    /\ \E stop \in TraceStops :
       \E siginfo \in IF At(stop, 1) = ch_T
                         /\ stop_switch([stop0 EXCEPT !.reply = stop,
                                                      !.size = Len(stop)]).type
                            = "gdb_stop_signal"
                      THEN SiginfoReplies ELSE {lit_lAB} :
       \E order \in IF conn.non_stop
                    THEN {"ok_first", "stop_first"}
                            \cup (IF stop = ErrStop THEN {"reply"} ELSE {})
                    ELSE {"all_stop"} :
       \E pending \in IF conn.non_stop /\ At(stop, 1) = ch_T
                      THEN SeqsUpTo(PendingStops, MaxPending) ELSE {<<>>} :
       \E async \in IF conn.non_stop /\ At(stop, 1) = ch_T
                    THEN SeqsUpTo(AsyncStops, MaxAsync) ELSE {<<>>} :
          /\ conn' = [conn EXCEPT
                         !.out = <<>>,
                         !.in = @ \o
                            (CASE order \in {"all_stop", "reply"} ->
                                     Wire(DOLLAR, stop, TRUE)
                               [] order = "ok_first" ->
                                     Wire(DOLLAR, OK, TRUE)
                                         \o Wire(PERCENT, stop, TRUE)
                               [] order = "stop_first" ->
                                     Wire(PERCENT, stop, TRUE)
                                         \o Wire(DOLLAR, OK, TRUE))]
          /\ server' = [server0 EXCEPT !.pending = pending,
                                        !.async = async,
                                        !.siginfo = siginfo]
          /\ hist' = [calls |-> hist.calls + 1, stop |-> stop,
                      order |-> order, pending |-> pending, async |-> async]
    /\ call' = [op |-> "stopped"]
    /\ ext' = <<>>
    /\ UNCHANGED <<notifications, notifications_size, tcbtab, current_tcp,
                   gdb_caps, status>>

GdbTrace ==
    /\ status = "ok"
    /\ call.op = "stopped"
    /\ \E ub \in TraceUb :
       \E m \in {gdb_trace(Machine(ub))} :
          /\ Commit(m)
          /\ call' = [op |-> "trace", ret |-> m.ret, status |-> m.status,
                      sent |-> m.sent, handled |-> m.handled]
    /\ hist' = hist

Next == ServerStops \/ GdbTrace

Spec == Init /\ [][Next]_vars

---------------------------------------------------------------------------
(* Claims about gdb_trace, on the call that has just returned: call.sent   *)
(* are the commands it sent, call.handled the stops it took up, ext the    *)
(* external calls it made.                                                 *)

Handled == call.handled

\* The external calls made for the k-th stop of the call.
Segment(k) ==
    SubSeq(ext, Handled[k].log + 1,
           IF k < Len(Handled) THEN Handled[k + 1].log ELSE Len(ext))

SyscallsTraced(k) == SelectSeq(Segment(k), LAMBDA e : e.ev = "trace_syscall")

\* scno of the thread of the k-th stop when the call is done with that stop.
ScnoAfter(k) ==
    LET tcp   == Handled[k].tcp
        later == {j \in (k + 1)..Len(Handled) : Handled[j].tcp = tcp}
    IN  IF later # {}
        THEN Handled[CHOOSE j \in later : \A i \in later : j <= i].scno
        ELSE tcbtab[tcp].scno

\* A command that resumes the tracee: c, Chh, vCont;...
vCont == Str(<<"v", "C", "o", "n", "t">>)
Resumes(cmd) ==
    /\ cmd # <<>>
    /\ cmd[1] \in {ch_C, lit_c[1]} \/ IsPrefix(vCont, cmd)

SignalStops == SelectSeq(Handled, LAMBDA h : h.stop.type = "gdb_stop_signal")

\* C6: a gdb_trace that returns true has sent one continuation command, as
\* its last packet and after every stop of the call was taken up:
\* vCont;C<hh>:<tid>;c or C<hh> for the Signal stop it handled, with or
\* without vCont, and vCont;c or c when it handled none.
C6_OneContinuation ==
    (call.op = "trace" /\ call.ret = "true")
    => LET n    == Len(call.sent)
           last == call.sent[n]
       IN  /\ n > 0
           /\ \A i \in 1..n : Resumes(call.sent[i]) <=> (i = n)
           /\ \A k \in 1..Len(Handled) : Handled[k].sent < n
           /\ IF SignalStops # <<>>
              THEN \E s \in 1..Len(SignalStops) :
                     LET hh == gdb_encode_hex(SignalStops[s].stop.code)
                     IN  IF gdb_caps.vcont
                         THEN \E k \in 1..Len(Handled) :
                                 last = vCont \o <<SEMI, ch_C>> \o hh
                                          \o <<COLON>>
                                          \o fmt_x(Handled[k].tid)
                                          \o <<SEMI>> \o lit_c
                         ELSE last = <<ch_C>> \o hh
              ELSE last = IF gdb_caps.vcont THEN vCont \o <<SEMI>> \o lit_c
                          ELSE lit_c

vCont_C0b_7c_c == Str(<<"v", "C", "o", "n", "t", ";", "C", "0", "b", ":", "7", "c", ";", "c">>)

\* A SIGSEGV stop of thread 7c was handled and injected with vCont.
C6_Witness ==
    /\ call.op = "trace" /\ call.ret = "true"
    /\ Len(Handled) = 1 /\ Handled[1].stop.reply = SegvStop
    /\ call.sent[Len(call.sent)] = vCont_C0b_7c_c

\* C8 (as claimed, up to the bytes behind a queue entry): a gdb_trace in
\* non-stop mode whose first stop is a T stop polls with vStopped until the
\* OK, and then takes up every other answer to its polls, each once and in
\* the order of arrival.
C8_DrainSeenInOrder ==
    (/\ call.op = "trace" /\ call.status = "ok" /\ conn.non_stop
     /\ At(hist.stop, 1) = ch_T /\ hist.async = <<>>)
    => /\ Len(SelectSeq(call.sent, LAMBDA c : c = lit_vStopped))
             = Len(hist.pending) + 1
       /\ Len(Handled) = 1 + Len(hist.pending)
       /\ \A k \in 1..Len(hist.pending) :
             k + 1 <= Len(Handled)
             /\ IsPrefix(hist.pending[k], Handled[k + 1].stop.reply)

\* C9: for a SyscallEntry stop trace_syscall is called once, with scno the
\* stop's code and TCB_INSYSCALL clear; for a SyscallReturn stop it is
\* called once with scno the stop's code if the thread was in the syscall,
\* and else it is not called and scno stays.
C9_SyscallStops ==
    (call.op = "trace" /\ call.status = "ok")
    => \A k \in 1..Len(Handled) :
          LET h == Handled[k]
          IN  /\ h.stop.type = "gdb_stop_syscall_entry"
                 => SyscallsTraced(k)
                       = <<Event("trace_syscall", h.tcp, h.stop.code, 0)>>
              /\ h.stop.type = "gdb_stop_syscall_return"
                 => IF "TCB_INSYSCALL" \in h.flags
                    THEN SyscallsTraced(k)
                            = <<Event("trace_syscall", h.tcp, h.stop.code, 1)>>
                    ELSE SyscallsTraced(k) = <<>> /\ ScnoAfter(k) = h.scno

\* A syscall entry reported for a thread that was in a syscall, and the
\* return from it, in one call.
C9_Witness ==
    /\ call.op = "trace" /\ call.status = "ok"
    /\ \E k \in 1..Len(Handled) :
          /\ Handled[k].stop.type = "gdb_stop_syscall_entry"
          /\ "TCB_INSYSCALL" \in Handled[k].flags
    /\ \E k \in 1..Len(Handled) :
          /\ Handled[k].stop.type = "gdb_stop_syscall_return"
          /\ "TCB_INSYSCALL" \in Handled[k].flags

\* C10: without multiprocess, a gdb_trace that takes up a W or X stop
\* prints the exit with W_EXITCODE(code, 0), or the termination with
\* W_EXITCODE(0, host signal), drops the thread record, sends nothing more
\* and returns false.
C10_ExitEndsLoop ==
    (call.op = "trace" /\ ~gdb_caps.multiprocess)
    => \A k \in 1..Len(Handled) :
          LET h == Handled[k]
          IN  h.stop.type \in {"gdb_stop_exited", "gdb_stop_terminated"}
              => /\ k = Len(Handled)
                 /\ call.status = "ok" /\ call.ret = "false"
                 /\ Segment(k)
                       = <<IF h.stop.type = "gdb_stop_exited"
                           THEN Event("print_exited", h.tid,
                                      256 * h.stop.code, 0)
                           ELSE Event("print_signalled", h.tid,
                                      gdb_signal_to_target(h, h.stop.code), 0),
                           Event("droptcb", h.tcp, 0, 0)>>
                 /\ h.tcp \notin DOMAIN tcbtab
                 /\ Len(call.sent) = h.sent

\* "X0a;process:7b": GDB_SIGNAL_BUS, SIGBUS of the host is 7.
C10_Witness ==
    /\ call.op = "trace" /\ ~gdb_caps.multiprocess /\ call.ret = "false"
    /\ Len(Handled) = 1 /\ Handled[1].stop.reply = TermStop
    /\ ext = <<Event("print_signalled", 123, 7, 0), Event("droptcb", 123, 0, 0)>>
    /\ tcbtab = <<>>

---------------------------------------------------------------------------
(* SpecStop: gdb_recv_stop on one syscall-entry stop.  The stop reply is   *)
(* "T05", at most MaxFillers other n:r pairs, and the syscall_entry and    *)
(* thread pairs in either order; the numbers are written in hex, in lower  *)
(* or upper case.  In all-stop mode it comes as a reply; in non-stop mode  *)
(* as a notification after the OK to the continuation.                     *)

MaxFillers == 1

\* Hex texts and the numbers they stand for.
HexTexts == {<<Str(<<"0">>), 0>>, <<Str(<<"3", "b">>), 59>>, <<Str(<<"E", "7">>), 231>>, <<Str(<<"7", "b">>), 123>>,
             <<Str(<<"1", "c", "8">>), 456>>}

Fillers == {Str(<<"0", "6", ":", "0", "0", "0", "0", "c", "0", "f", "f", "e", "e", "7", "f", "0", "0", "0", "0", ";">>), Str(<<"c", "o", "r", "e", ":", "1", ";">>), Str(<<"w", "a", "t", "c", "h", ":", ";">>)}

T05 == Str(<<"T", "0", "5">>)

StopPayload(n, P, T, entry_first, fill) ==
    LET entry  == lit_syscall_entry \o <<COLON>> \o n[1] \o <<SEMI>>
        thread == lit_thread \o <<COLON, ch_p>> \o P[1] \o <<DOT>> \o T[1]
                     \o <<SEMI>>
    IN  T05 \o Flatten(fill)
            \o (IF entry_first THEN entry \o thread ELSE thread \o entry)

InitStop ==
    /\ notifications = <<>>
    /\ notifications_size = 0
    /\ tcbtab = <<>>
    /\ current_tcp = 0
    /\ gdb_caps = caps0
    /\ status = "ok"
    /\ ext = <<>>
    /\ server = server0
    /\ hist = [calls |-> 0]
    /\ \E n \in HexTexts, P \in HexTexts, T \in HexTexts,
          entry_first \in BOOLEAN, fill \in SeqsUpTo(Fillers, MaxFillers),
          non_stop \in BOOLEAN :
          /\ call = [op |-> "stop_sent", n |-> n[2], P |-> P[2], T |-> T[2],
                     entry_first |-> entry_first,
                     payload |-> StopPayload(n, P, T, entry_first, fill),
                     stop |-> stop0]
          /\ conn = [conn0 EXCEPT
                        !.non_stop = non_stop,
                        !.in = IF non_stop
                               THEN Wire(DOLLAR, OK, TRUE)
                                       \o Wire(PERCENT,
                                               StopPayload(n, P, T,
                                                           entry_first, fill),
                                               TRUE)
                               ELSE Wire(DOLLAR,
                                         StopPayload(n, P, T, entry_first,
                                                     fill), TRUE)]

RecvStop ==
    /\ status = "ok"
    /\ call.op = "stop_sent"
    /\ \E m \in {gdb_recv_stop(Machine(NoUb), FALSE, stop0)} :
          /\ Commit(m)
          /\ call' = [call EXCEPT !.op = "recv_stop", !.stop = m.stop]
    /\ hist' = [calls |-> hist.calls + 1]

NextStop == RecvStop

SpecStop == InitStop /\ [][NextStop]_vars

\* C7: gdb_recv_stop decodes T05...syscall_entry:<n>;thread:p<P>.<T>; and
\* the same with the thread pair first to a syscall-entry stop with code n,
\* pid P and tid T.
C7_SyscallEntryDecoded ==
    call.op = "recv_stop"
    => /\ status = "ok"
       /\ call.stop.reply = call.payload
       /\ call.stop.type = "gdb_stop_syscall_entry"
       /\ call.stop.code = call.n
       /\ call.stop.pid = call.P
       /\ call.stop.tid = call.T

\* The thread pair came first, with a tid other than the pid, in non-stop
\* mode.
C7_Witness ==
    /\ call.op = "recv_stop"
    /\ ~call.entry_first /\ conn.non_stop
    /\ call.P = 123 /\ call.T = 456 /\ call.n = 231
    /\ call.stop.type = "gdb_stop_syscall_entry"
    /\ call.stop.tid = 456

---------------------------------------------------------------------------
\* C11 (as claimed): when the stub answers E<hh> where gdb_trace expects a
\* stop reply, in all-stop or in non-stop mode, gdb_trace returns false,
\* sends no continuation command and leaves the thread table and the
\* current tracee as they are.
C11_ErrorEndsLoop ==
    [][(call.op = "stopped" /\ hist.stop = ErrStop /\ call'.op = "trace")
       => /\ status' = "ok"
          /\ call'.ret = "false"
          /\ \A i \in 1..Len(call'.sent) : ~Resumes(call'.sent[i])
          /\ tcbtab' = tcbtab
          /\ current_tcp' = current_tcp]_vars


\* C12: gdb_start_noack turns the acks off exactly when the reply to
\* QStartNoAckMode is "OK".  After a refusal the acks stay on: a later
\* gdb_send reads an ack byte for every frame it writes and writes the frame
\* again after every byte that is no '+', and a later gdb_recv that returns
\* has written ack bytes only, the last of them its one '+'.
C12_NoAckOnlyOnOK ==
    /\ (call.op = "noack" /\ call.status = "ok")
       => /\ call.written[1] = DOLLAR
          /\ SubSeq(call.written, 2, 1 + Len(lit_QStartNoAckMode))
                = lit_QStartNoAckMode
          /\ conn.ack <=> ~(call.reply = OK)
          /\ hist.noack = (IF call.reply = OK THEN "accepted" ELSE "refused")
    /\ (hist.noack = "refused" /\ call.op = "send")
       => /\ call.ack
          /\ call.status = "ok"
             => /\ call.bytes_read # <<>>
                /\ call.written = Times(g_frame, Len(call.bytes_read))
          /\ Len(call.written)
                >= Len(g_frame)
                   * (1 + Len(SelectSeq(call.bytes_read,
                                        LAMBDA b : b # PLUS)))
    /\ (hist.noack = "refused" /\ call.op = "recv" /\ call.status = "ok")
       => /\ call.ack
          /\ call.written # <<>>
          /\ \A i \in 1..Len(call.written) :
                call.written[i] = (IF i = Len(call.written)
                                   THEN PLUS ELSE MINUS)

\* A refused QStartNoAckMode, then a send that is nacked and sends again.
C12_Witness ==
    /\ hist.noack = "refused"
    /\ call.op = "send" /\ call.ack
    /\ MINUS \in {call.bytes_read[i] : i \in 1..Len(call.bytes_read)}
    /\ Len(call.written) >= 2 * Len(g_frame)

---------------------------------------------------------------------------
(* Start-up: gdbserver.c 329-369.                                          *)

lit_qSupported == Str(<<"q", "S", "u", "p", "p", "o", "r", "t", "e", "d", ":", "m", "u", "l", "t", "i", "p", "r", "o", "c", "e", "s", "s", "+">>)
lit_multiprocess == Str(<<"m", "u", "l", "t", "i", "p", "r", "o", "c", "e", "s", "s", "+">>)
lit_bang == Str(<<"!">>)
lit_vCont_query == Str(<<"v", "C", "o", "n", "t", "?">>)
lit_vCont == Str(<<"v", "C", "o", "n", "t">>)

\* F after v, unless the process has ended in v.
AndThen(v, F(_)) == Bind(v, LAMBDA x : IF x.status # "ok" THEN x ELSE F(x))

\* What the stub does when it hears cmd: its ack and its answer are on the
\* way before the function that sent cmd reads them.
heard(m, cmd) == server_reply(server_ack(m), cmd)

\* A gdb_init that takes any answer to "!" for a yes.
gdb_init_extended_always(m) ==
    AndThen(gdb_start_noack(heard(m, lit_QStartNoAckMode)), LAMBDA m1 :
    AndThen(exchange(m1, lit_qSupported), LAMBDA m2 :
    AndThen(gdb_recv(m2, FALSE), LAMBDA m3 :
    AndThen([m3 EXCEPT !.caps.multiprocess =
                           FindSub(CStr(m3.reply), lit_multiprocess) # 0],
        LAMBDA m4 :
    AndThen(exchange(m4, lit_bang), LAMBDA m5 :
    AndThen(gdb_ok(m5), LAMBDA m6 :
    AndThen([m6 EXCEPT !.caps.extended = TRUE], LAMBDA m7 :
    AndThen(exchange(m7, lit_vCont_query), LAMBDA m8 :
    AndThen(gdb_recv(m8, FALSE), LAMBDA m9 :
        [m9 EXCEPT !.caps.vcont = StrNEq(m9.reply, lit_vCont)])))))))))

\* gdb_init, after gdb_begin has made the connection.
gdb_init(m) ==
    AndThen(gdb_start_noack(heard(m, lit_QStartNoAckMode)), LAMBDA m1 :
    AndThen(IF ~m1.ok
            THEN error_msg(m1, "couldn't enable gdb noack mode") ELSE m1,
        LAMBDA m1b :
    AndThen(exchange(m1b, lit_qSupported), LAMBDA m2 :
    AndThen(gdb_recv(m2, FALSE), LAMBDA m3 :
    AndThen([m3 EXCEPT !.caps.multiprocess =
                           FindSub(CStr(m3.reply), lit_multiprocess) # 0],
        LAMBDA m4 :
    AndThen(IF ~m4.caps.multiprocess
            THEN error_msg(m4, "couldn't enable gdb multiprocess mode")
            ELSE m4,
        LAMBDA m4b :
    AndThen(exchange(m4b, lit_bang), LAMBDA m5 :
    AndThen(gdb_ok(m5), LAMBDA m6 :
    AndThen([m6 EXCEPT !.caps.extended = m6.ok], LAMBDA m7 :
    AndThen(IF ~m7.caps.extended
            THEN error_msg(m7, "couldn't enable gdb extended mode") ELSE m7,
        LAMBDA m7b :
    AndThen(exchange(m7b, lit_vCont_query), LAMBDA m8 :
    AndThen(gdb_recv(m8, FALSE), LAMBDA m9 :
    AndThen([m9 EXCEPT !.caps.vcont = StrNEq(m9.reply, lit_vCont)],
        LAMBDA m10 :
        IF ~m10.caps.vcont
        THEN error_msg(m10, "gdb server doesn't support vCont")
        ELSE m10)))))))))))))

---------------------------------------------------------------------------
(* The specifications of the calls made around the trace loop.  Each       *)
(* starts from a stub that answers the commands it hears, one after the    *)
(* other, with the replies of hist.replies (and with "OK" when they have   *)
(* run out), and makes the one call.                                       *)

Scripted(replies) ==
    [server0 EXCEPT !.script = [i \in 1..Len(replies) |->
                                   Wire(DOLLAR, replies[i], TRUE)]]

Boot(c, caps, table, srv) ==
    /\ conn = c
    /\ notifications = <<>>
    /\ notifications_size = 0
    /\ tcbtab = table
    /\ current_tcp = 0
    /\ gdb_caps = caps
    /\ status = "ok"
    /\ ext = <<>>
    /\ server = srv
    /\ call = [op |-> "none"]

\* What a call leaves for the formulas: its results and what the stub heard.
Called(op, m) ==
    call' = [op |-> op, status |-> m.status, ok |-> m.ok, sent |-> m.sent,
             reply |-> m.reply, size |-> m.size, ret |-> m.ret,
             stop |-> m.stop, written |-> Drop(m.out, Len(conn.out))]

---------------------------------------------------------------------------
(* SpecInit: gdb_init on a new connection.                                 *)

lit_features == Str(<<"P", "a", "c", "k", "e", "t", "S", "i", "z", "e", "=", "3", "f", "f", "f", ";", "m", "u", "l", "t", "i", "p", "r", "o", "c", "e", "s", "s", "+", ";", "v", "C", "o", "n", "t", "S", "u", "p", "p", "o", "r", "t", "e", "d", "+">>)
lit_no_multi == Str(<<"P", "a", "c", "k", "e", "t", "S", "i", "z", "e", "=", "3", "f", "f", "f", ";", "m", "u", "l", "t", "i", "p", "r", "o", "c", "e", "s", "s", "-">>)
lit_vCont_list == Str(<<"v", "C", "o", "n", "t", ";", "c", ";", "C", ";", "s", ";", "S", ";", "t">>)
lit_vCon == Str(<<"v", "C", "o", "n">>)

NoAckReplies == {OK, <<>>}
SupportedReplies == {lit_multiprocess, lit_features, lit_no_multi, <<>>}
ExtendedReplies == {OK, <<>>, lit_E01}
vContReplies == {lit_vCont_list, lit_vCon, OK, <<>>}

InitInit ==
    \E r1 \in NoAckReplies, r2 \in SupportedReplies,
       r3 \in ExtendedReplies, r4 \in vContReplies :
       /\ Boot(conn0, caps0, <<>>, Scripted(<<r1, r2, r3, r4>>))
       /\ hist = [replies |-> <<r1, r2, r3, r4>>]

GdbInit ==
    /\ status = "ok"
    /\ call.op = "none"
    /\ \E m \in {gdb_init(Machine(NoUb))} : Commit(m) /\ Called("init", m)
    /\ hist' = hist

NextInit == GdbInit

SpecInit == InitInit /\ [][NextInit]_vars

\* C13: gdb_init sends QStartNoAckMode, qSupported:multiprocess+, ! and
\* vCont? in this order, each once, and has read the reply to each before
\* it sends the next; afterwards multiprocess is set exactly when the reply
\* to qSupported contains "multiprocess+", extended exactly when the reply
\* to ! is "OK", vcont exactly when the reply to vCont? begins with "vCont".
C13_InitHandshake ==
    call.op = "init"
    => /\ status = "ok"
       /\ call.sent = <<lit_QStartNoAckMode, lit_qSupported, lit_bang,
                        lit_vCont_query>>
       /\ conn.in = <<>>
       /\ server.script = <<>>
       /\ gdb_caps.multiprocess
             <=> hist.replies[2] \in {lit_multiprocess, lit_features}
       /\ gdb_caps.extended <=> hist.replies[3] = OK
       /\ gdb_caps.vcont <=> hist.replies[4] = lit_vCont_list
       /\ conn.ack <=> hist.replies[1] # OK

\* The stub offers everything: all three capabilities are set, acks are off.
C13_Witness ==
    /\ call.op = "init"
    /\ hist.replies = <<OK, lit_features, OK, lit_vCont_list>>
    /\ gdb_caps = [extended |-> TRUE, multiprocess |-> TRUE, vcont |-> TRUE]
    /\ ~conn.ack

---------------------------------------------------------------------------
(* Attach: gdbserver.c 531-611, protocol.c 591-595.                        *)

lit_QNonStop_1 == Str(<<"Q", "N", "o", "n", "S", "t", "o", "p", ":", "1">>)
lit_QNonStop_0 == Str(<<"Q", "N", "o", "n", "S", "t", "o", "p", ":", "0">>)
lit_vAttach == Str(<<"v", "A", "t", "t", "a", "c", "h", ";">>)
lit_vCont_t_p == Str(<<"v", "C", "o", "n", "t", ";", "t", ":", "p">>)
lit_dot_minus_1 == Str(<<".", "-", "1">>)

gdb_set_non_stop(m, val) == [m EXCEPT !.non_stop = val]

\* The all-stop attach of gdb_startup_attach (571-597).
attach_all_stop(m, attach_cmd) ==
    AndThen(exchange(m, lit_QNonStop_0), LAMBDA m1 :
    AndThen(gdb_ok(m1), LAMBDA m2 :
    AndThen(IF m2.ok THEN gdb_set_non_stop(m2, FALSE)
            ELSE error_msg_and_die(m2,
                                   "gdb server doesn't support vAttach!"),
        LAMBDA m3 :
    AndThen(exchange(m3, attach_cmd), LAMBDA m4 :
    AndThen(gdb_recv_stop(m4, FALSE, stop0), LAMBDA m5 :
        IF m5.stop.size = 0
        THEN error_msg_and_die(m5, "gdb server doesn't support vAttach!")
        ELSE IF m5.stop.type = "gdb_stop_error"
        THEN error_msg_and_die(m5, "gdb server failed vAttach")
        ELSE IF m5.stop.type = "gdb_stop_trap" THEN m5
        ELSE IF m5.stop.type = "gdb_stop_signal" /\ m5.stop.code = 0 THEN m5
        ELSE error_msg_and_die(m5,
                               "gdb server expected vAttach trap"))))))

\* tcp->flags |= TCB_ATTACHED | TCB_STARTUP; newoutf(tcp); gdb_init_syscalls()
startup_thread(m, tcp) ==
    gdb_init_syscalls(
        [m EXCEPT !.tcbtab[tcp].flags = @ \cup {"TCB_ATTACHED", "TCB_STARTUP"},
                  !.tcp = tcp, !.live = TRUE,
                  !.ext = Append(@, Event("newoutf", tcp, 0, 0))])

\* A gdb_startup_attach that stops the threads before it attaches.
gdb_startup_attach_stop_first(m, tcp) ==
    IF ~m.caps.extended
    THEN error_msg_and_die(m,
             "gdb server doesn't support attaching processes!")
    ELSE
    AndThen(exchange(m, lit_QNonStop_1), LAMBDA m1 :
    AndThen(gdb_ok(m1), LAMBDA m2 :
    AndThen(IF m2.ok THEN gdb_set_non_stop(m2, TRUE) ELSE m2, LAMBDA m3 :
    AndThen(exchange(m3, lit_vCont_t_p \o fmt_x(tcp) \o lit_dot_minus_1),
        LAMBDA m4 :
    AndThen(gdb_ok(m4), LAMBDA m5 :
    AndThen(IF ~m5.ok THEN [m5 EXCEPT !.stop.type = "gdb_stop_unknown"]
            ELSE AndThen(exchange(m5, lit_vAttach \o fmt_x(tcp)),
                     LAMBDA m6 : gdb_recv_stop(m6, FALSE, stop0)),
        LAMBDA m7 :
    AndThen(IF m7.stop.type = "gdb_stop_unknown"
            THEN attach_all_stop(m7, lit_vAttach \o fmt_x(tcp)) ELSE m7,
        LAMBDA m8 :
    AndThen(IF m8.stop.tid # tcp
            THEN alloctcb(droptcb(m8, tcp), m8.stop.tid) ELSE m8,
        LAMBDA m9 :
    AndThen(startup_thread(m9, m8.stop.tid), LAMBDA m10 :
        [m10 EXCEPT !.ext = Append(@, Event("Process attached",
                                            m8.stop.tid, 0, 0))])))))))))

\* gdb_startup_attach(tcp); tcp->pid is tcp.  When the reply to vAttach is
\* not "OK", stop.type is set and the other fields of stop are not; they
\* are not read before gdb_recv_stop has set them all.
gdb_startup_attach(m, tcp) ==
    IF ~m.caps.extended
    THEN error_msg_and_die(m,
             "gdb server doesn't support attaching processes!")
    ELSE
    AndThen(exchange(m, lit_QNonStop_1), LAMBDA m1 :
    AndThen(gdb_ok(m1), LAMBDA m2 :
    AndThen(IF m2.ok THEN gdb_set_non_stop(m2, TRUE) ELSE m2, LAMBDA m3 :
    AndThen(exchange(m3, lit_vAttach \o fmt_x(tcp)), LAMBDA m4 :
    AndThen(gdb_ok(m4), LAMBDA m5 :
    AndThen(IF ~m5.ok THEN [m5 EXCEPT !.stop.type = "gdb_stop_unknown"]
            ELSE AndThen(exchange(m5, lit_vCont_t_p \o fmt_x(tcp)
                                         \o lit_dot_minus_1),
                     LAMBDA m6 : gdb_recv_stop(m6, FALSE, stop0)),
        LAMBDA m7 :
    AndThen(IF m7.stop.type = "gdb_stop_unknown"
            THEN attach_all_stop(m7, lit_vAttach \o fmt_x(tcp)) ELSE m7,
        LAMBDA m8 :
    AndThen(IF m8.stop.tid # tcp
            THEN alloctcb(droptcb(m8, tcp), m8.stop.tid) ELSE m8,
        LAMBDA m9 :
    AndThen(startup_thread(m9, m8.stop.tid), LAMBDA m10 :
        [m10 EXCEPT !.ext = Append(@, Event("Process attached",
                                            m8.stop.tid, 0, 0))])))))))))

---------------------------------------------------------------------------
(* SpecAttach: gdb_startup_attach of process 123 after gdb_init.  The stub *)
(* answers the k-th command it hears with the k-th of five replies; a      *)
(* reply may be followed by a %Stop notification.                          *)

\* The process of strace -p 123: its id is 7b in the packets.
AttachPid == (7 * 16) + 11
lit_vAttach_7b == Str(<<"v", "A", "t", "t", "a", "c", "h", ";", "7", "b">>)
lit_vCont_t_7b == Str(<<"v", "C", "o", "n", "t", ";", "t", ":", "p", "7", "b", ".", "-", "1">>)
lit_S00 == Str(<<"S", "0", "0">>)

R_OK == Wire(DOLLAR, OK, TRUE)
R_Empty == Wire(DOLLAR, <<>>, TRUE)
R_E01 == Wire(DOLLAR, lit_E01, TRUE)
R_Trap == Wire(DOLLAR, TrapStop, TRUE)
R_Segv == Wire(DOLLAR, SegvStop, TRUE)
R_S00 == Wire(DOLLAR, lit_S00, TRUE)
R_OK_Stop == R_OK \o Wire(PERCENT, TrapStop, TRUE)

AttachReplies1 == {R_OK, R_Empty, R_E01}
AttachReplies2 == {R_OK, R_Trap, R_E01, R_Empty}
AttachReplies3 == {R_OK, R_OK_Stop, R_Empty, R_Trap}
AttachReplies4 == {R_OK, R_Trap, R_Segv, R_S00, R_E01}
AttachReplies5 == {R_OK, R_Empty}

InitAttach ==
    \E r1 \in AttachReplies1, r2 \in AttachReplies2, r3 \in AttachReplies3,
       r4 \in AttachReplies4, r5 \in AttachReplies5,
       ack \in BOOLEAN, extended \in BOOLEAN :
       /\ Boot([in |-> <<>>, out |-> <<>>, ack |-> ack, non_stop |-> FALSE],
               [caps0 EXCEPT !.extended = extended],
               [p \in {AttachPid} |-> [pid |-> p, flags |-> {}, scno |-> 0,
                                       s_prev_ent |-> FALSE]],
               [server0 EXCEPT !.script = <<r1, r2, r3, r4, r5>>])
       /\ hist = [replies |-> <<r1, r2, r3, r4, r5>>]

StartupAttach ==
    /\ status = "ok"
    /\ call.op = "none"
    /\ \E m \in {gdb_startup_attach(Machine(NoUb), AttachPid)} :
          Commit(m) /\ Called("attach", m)
    /\ hist' = hist

NextAttach == StartupAttach

SpecAttach == InitAttach /\ [][NextAttach]_vars

\* Where cmd is in the commands the stub heard: the index of its first
\* occurrence and the number of its occurrences.
FirstSent(cmd) ==
    IF \E i \in 1..Len(call.sent) : call.sent[i] = cmd
    THEN CHOOSE i \in 1..Len(call.sent) :
            call.sent[i] = cmd /\ \A j \in 1..(i - 1) : call.sent[j] # cmd
    ELSE 0
TimesSent(cmd) == Len(SelectSeq(call.sent, LAMBDA c : c = cmd))

Attached == call.op = "attach" /\ gdb_caps.extended

\* C14 (as the code has it): when the stub answers OK to QNonStop:1,
\* gdb_startup_attach enters non-stop state and sends vAttach;<pid> next;
\* when the reply to that is OK it sends vCont;t:p<pid>.-1 next and then
\* waits for the stop.  vCont;t is never sent before vAttach.
C14_AttachThenStop ==
    (Attached /\ hist.replies[1] = R_OK)
    => /\ Len(call.sent) >= 2
       /\ call.sent[1] = lit_QNonStop_1
       /\ call.sent[2] = lit_vAttach_7b
       /\ hist.replies[2] = R_OK
          => /\ Len(call.sent) >= 3
             /\ call.sent[3] = lit_vCont_t_7b
             /\ TimesSent(lit_vCont_t_7b) = 1
       /\ hist.replies[2] # R_OK => TimesSent(lit_vCont_t_7b) = 0
       /\ TimesSent(lit_QNonStop_0) = 0 => conn.non_stop

\* C14 (as claimed): when the stub answers OK to QNonStop:1, vCont;t:p<pid>.-1
\* is sent and answered before vAttach;<pid> is sent; no vAttach is sent
\* before the vCont;t.
C14_StopThenAttach ==
    (Attached /\ hist.replies[1] = R_OK)
    => /\ FirstSent(lit_vCont_t_7b) > 0
       /\ FirstSent(lit_vAttach_7b) > FirstSent(lit_vCont_t_7b)

\* A non-stop attach: OK to QNonStop:1, OK to vAttach, OK to vCont;t and
\* the stop notification, OK to vStopped, OK to QCatchSyscalls:1.
C14_Witness ==
    /\ Attached /\ status = "ok"
    /\ hist.replies = <<R_OK, R_OK, R_OK_Stop, R_OK, R_OK>>
    /\ conn.non_stop
    /\ call.stop.type = "gdb_stop_trap"
    /\ "TCB_STARTUP" \in tcbtab[AttachPid].flags

\* C15 (as claimed): when the stub does not answer OK to QNonStop:1,
\* gdb_startup_attach sends no vAttach before it has sent QNonStop:0, sends
\* vAttach;<pid> once in all, and leaves the connection in all-stop state.
C15_FallbackAttachesOnce ==
    (Attached /\ hist.replies[1] # R_OK)
    => /\ ~conn.non_stop
       /\ FirstSent(lit_vAttach_7b) > 0
          => /\ FirstSent(lit_QNonStop_0) > 0
             /\ FirstSent(lit_QNonStop_0) < FirstSent(lit_vAttach_7b)
       /\ status = "ok" => TimesSent(lit_vAttach_7b) = 1

---------------------------------------------------------------------------
(* Launch: gdbserver.c 469-529.                                            *)

lit_vRun == Str(<<"v", "R", "u", "n">>)

\* "vRun" and ";" and the hex digits of the argument, for every argument.
vRun_cmd(argv) ==
    lit_vRun
    \o Flatten([i \in 1..Len(argv) |->
                   <<SEMI>>
                   \o Flatten([j \in 1..Len(argv[i]) |->
                                  gdb_encode_hex(argv[i][j])])])

\* A gdb_startup_child that takes any stop that is no error.
gdb_startup_child_any_stop(m, argv) ==
    IF ~m.caps.extended
    THEN error_msg_and_die(m,
             "gdb server doesn't support starting processes!")
    ELSE
    AndThen(exchange(m, vRun_cmd(argv)), LAMBDA m1 :
    AndThen(gdb_recv_stop(m1, FALSE, stop0), LAMBDA m2 :
    AndThen(IF m2.stop.size = 0
            THEN error_msg_and_die(m2, "gdb server doesn't support vRun!")
            ELSE IF m2.stop.type = "gdb_stop_error"
            THEN error_msg_and_die(m2, "gdb server failed vRun")
            ELSE m2,
        LAMBDA m3 :
            startup_thread(alloctcb(m3, m3.stop.tid), m3.stop.tid))))

\* gdb_startup_child(argv).
gdb_startup_child(m, argv) ==
    IF ~m.caps.extended
    THEN error_msg_and_die(m,
             "gdb server doesn't support starting processes!")
    ELSE
    AndThen(exchange(m, vRun_cmd(argv)), LAMBDA m1 :
    AndThen(gdb_recv_stop(m1, FALSE, stop0), LAMBDA m2 :
    AndThen(IF m2.stop.size = 0
            THEN error_msg_and_die(m2, "gdb server doesn't support vRun!")
            ELSE IF m2.stop.type = "gdb_stop_error"
            THEN error_msg_and_die(m2, "gdb server failed vRun")
            ELSE IF m2.stop.type = "gdb_stop_trap" THEN m2
            ELSE error_msg_and_die(m2, "gdb server expected vRun trap"),
        LAMBDA m3 :
            startup_thread(alloctcb(m3, m3.stop.tid), m3.stop.tid))))

---------------------------------------------------------------------------
(* SpecChild: gdb_startup_child after gdb_init, on a stub that answers     *)
(* vRun and the command after it.                                          *)

lit_ls == Str(<<"l", "s">>)
lit_minus_l == Str(<<"-", "l">>)
lit_vRun_ls == Str(<<"v", "R", "u", "n", ";", "6", "c", "7", "3">>)
lit_vRun_ls_l == Str(<<"v", "R", "u", "n", ";", "6", "c", "7", "3", ";", "2", "d", "6", "c">>)
lit_vRun_none == Str(<<"v", "R", "u", "n", ";">>)
lit_S05 == Str(<<"S", "0", "5">>)
lit_T05 == Str(<<"T", "0", "5">>)
lit_S0b == Str(<<"S", "0", "b">>)
lit_Trap7c == Str(<<"T", "0", "5", "t", "h", "r", "e", "a", "d", ":", "p", "7", "b", ".", "7", "c", ";">>)

\* The programs to launch, each with the packet that launches it.
ChildArgs ==
    {[argv |-> <<lit_ls>>, cmd |-> lit_vRun_ls],
     [argv |-> <<lit_ls, lit_minus_l>>, cmd |-> lit_vRun_ls_l],
     [argv |-> << <<>> >>, cmd |-> lit_vRun_none]}

\* The stop replies of kind Trap (signal 5 or signal 0), each with the
\* thread it reports (-1 when it names none), and the other replies.
TrapReplies ==
    {[reply |-> TrapStop, tid |-> 123], [reply |-> lit_Trap7c, tid |-> 124],
     [reply |-> lit_S05, tid |-> 0 - 1], [reply |-> lit_T05, tid |-> 0 - 1],
     [reply |-> lit_S00, tid |-> 0 - 1]}
OtherReplies ==
    {[reply |-> r, tid |-> 0] :
        r \in {<<>>, OK, lit_E01, lit_S0b, SegvStop, ExitStop, TermStop}}

InitChild ==
    \E a \in ChildArgs, r1 \in TrapReplies \cup OtherReplies,
       r2 \in {OK, <<>>, lit_E01}, ack \in BOOLEAN, extended \in BOOLEAN :
       /\ Boot([in |-> <<>>, out |-> <<>>, ack |-> ack, non_stop |-> FALSE],
               [caps0 EXCEPT !.extended = extended], <<>>,
               Scripted(<<r1.reply, r2>>))
       /\ hist = [args |-> a, vrun |-> r1, catch |-> r2]

StartupChild ==
    /\ status = "ok"
    /\ call.op = "none"
    /\ \E m \in {gdb_startup_child(Machine(NoUb), hist.args.argv)} :
          Commit(m) /\ Called("child", m)
    /\ hist' = hist

NextChild == StartupChild

SpecChild == InitChild /\ [][NextChild]_vars

\* C16: gdb_startup_child returns exactly when extended mode is on and the
\* reply to vRun;hex(arg0);hex(arg1);... is a stop of kind Trap.  Then the
\* thread table holds one record, for the tid of the stop, with ATTACHED and
\* STARTUP set, and the stub has heard vRun and then QCatchSyscalls:1, once
\* each.  Otherwise the process exits, the table is empty, and the stub has
\* heard vRun if extended mode is on and nothing else.
C16_ChildNeedsTrap ==
    call.op = "child"
    => /\ status = "ok" <=> (gdb_caps.extended /\ hist.vrun \in TrapReplies)
       /\ status = "ok"
          => /\ DOMAIN tcbtab = {hist.vrun.tid}
             /\ tcbtab[hist.vrun.tid].pid = hist.vrun.tid
             /\ tcbtab[hist.vrun.tid].flags = {"TCB_ATTACHED", "TCB_STARTUP"}
             /\ call.sent = <<hist.args.cmd, lit_QCatchSyscalls_1>>
       /\ status # "ok"
          => /\ status = "exit1"
             /\ tcbtab = <<>>
             /\ call.sent = IF gdb_caps.extended THEN <<hist.args.cmd>>
                            ELSE <<>>

\* ls -l is launched and stops with a trap in thread 7b.
C16_Witness ==
    /\ call.op = "child" /\ status = "ok"
    /\ hist.args.cmd = lit_vRun_ls_l
    /\ hist.vrun.reply = TrapStop
    /\ DOMAIN tcbtab = {123}
    /\ call.sent = <<lit_vRun_ls_l, lit_QCatchSyscalls_1>>

---------------------------------------------------------------------------
(* Thread enumeration: gdbserver.c 407-459.                                *)

COMMA == Ord(",")
ch_m == Ord("m")

\* What the for loop of gdb_enumerate_threads sees of the list that follows
\* the 'm': strtok(list, ",") yields the first id, strtok(NULL, "") yields
\* all that follows it as one token, and the call after that yields NULL.
enumerate_tokens(list) ==
    LET lead == IF \E i \in 1..Len(list) : list[i] # COMMA
                THEN (CHOOSE i \in 1..Len(list) :
                         list[i] # COMMA
                         /\ \A j \in 1..(i - 1) : list[j] = COMMA) - 1
                ELSE Len(list)
        body == Drop(list, lead)
        cut  == IndexOf(body, COMMA)
    IN  IF body = <<>> THEN <<>>
        ELSE IF cut = 0 THEN <<body>>
        ELSE IF cut = Len(body) THEN <<Take(body, cut - 1)>>
        ELSE <<Take(body, cut - 1), Drop(body, cut)>>

\* The body of the for loop, for the tokens from the k-th on.
RECURSIVE enumerate_reply(_, _, _)
enumerate_reply(m, tokens, k) ==
    IF m.status # "ok" \/ k > Len(tokens) THEN m
    ELSE Bind(gdb_find_thread(m, gdb_parse_thread(tokens[k]).tid, FALSE),
             LAMBDA m1 :
                 enumerate_reply(
                     IF m1.status = "ok" /\ m1.tcp # 0 /\ m1.current_tcp = 0
                     THEN [m1 EXCEPT !.current_tcp = m1.tcp] ELSE m1,
                     tokens, k + 1))

\* The while loop: m.reply is the reply to look at.
RECURSIVE enumerate_loop(_)
enumerate_loop(m) ==
    IF m.status # "ok" \/ At(m.reply, 1) # ch_m THEN m
    ELSE AndThen(enumerate_reply(m, enumerate_tokens(CStr(Drop(m.reply, 1))),
                                 1),
             LAMBDA m1 :
                 AndThen(exchange(m1, lit_qsThreadInfo), LAMBDA m2 :
                     enumerate_loop(gdb_recv(m2, FALSE))))

gdb_enumerate_threads(m) ==
    AndThen(exchange(m, lit_qfThreadInfo), LAMBDA m1 :
        enumerate_loop(gdb_recv(m1, FALSE)))

gdb_finalize_init(m) ==
    AndThen(gdb_enumerate_threads(m), LAMBDA m1 :
        exchange(m1, IF m1.caps.vcont THEN lit_vCont_c ELSE lit_c))

---------------------------------------------------------------------------
(* SpecThreads: gdb_finalize_init after the startup, on a stub that lists  *)
(* its threads in at most MaxListings replies and then ends the list.      *)

MaxListings == 2

lit_m7b == Str(<<"m", "7", "b">>)
lit_m7b_7c == Str(<<"m", "7", "b", ",", "7", "c">>)
lit_m7b_7c_7d == Str(<<"m", "7", "b", ",", "7", "c", ",", "7", "d">>)
lit_mp7b_7c == Str(<<"m", "p", "7", "b", ".", "7", "b", ",", "p", "7", "b", ".", "7", "c">>)
lit_mp7b_7c_7d == Str(<<"m", "p", "7", "b", ".", "7", "b", ",", "p", "7", "b", ".", "7", "c", ",", "p", "7", "b", ".", "7", "d">>)
lit_m7e == Str(<<"m", "7", "e">>)

\* The listings, each with the threads it lists.
Listings ==
    {[reply |-> lit_m7b, tids |-> {123}],
     [reply |-> lit_m7e, tids |-> {126}],
     [reply |-> lit_m7b_7c, tids |-> {123, 124}],
     [reply |-> lit_mp7b_7c, tids |-> {123, 124}],
     [reply |-> lit_m7b_7c_7d, tids |-> {123, 124, 125}],
     [reply |-> lit_mp7b_7c_7d, tids |-> {123, 124, 125}]}

InitThreads ==
    \E ls \in SeqsUpTo(Listings, MaxListings), end \in {lit_l, <<>>},
       ack \in BOOLEAN, vcont \in BOOLEAN, known \in {{}, {AttachPid}} :
       /\ Boot([in |-> <<>>, out |-> <<>>, ack |-> ack, non_stop |-> FALSE],
               [caps0 EXCEPT !.extended = TRUE, !.vcont = vcont],
               [p \in known |->
                   [pid |-> p, flags |-> {"TCB_ATTACHED", "TCB_STARTUP"},
                    scno |-> 0, s_prev_ent |-> FALSE]],
               [server0 EXCEPT
                   !.threads = [i \in 1..Len(ls) |-> ls[i].reply]
                               \o <<end>>])
       /\ hist = [listings |-> ls, known |-> known]

FinalizeInit ==
    /\ status = "ok"
    /\ call.op = "none"
    /\ \E m \in {gdb_finalize_init(Machine(NoUb))} :
          Commit(m) /\ Called("finalize", m)
    /\ hist' = hist

NextThreads == FinalizeInit

SpecThreads == InitThreads /\ [][NextThreads]_vars

Listed == UNION {hist.listings[i].tids : i \in 1..Len(hist.listings)}

\* C17 (as claimed): after gdb_finalize_init every thread listed in an
\* m-prefixed reply to qfThreadInfo or qsThreadInfo, however many ids the
\* reply lists, has a record in the thread table; the enumeration asks once
\* more after every m-prefixed reply and ends at the first other reply; one
\* continuation (vCont;c, or c without vCont) is sent afterwards.
C17_AllListedHaveRecords ==
    call.op = "finalize"
    => /\ status = "ok"
       /\ Listed \subseteq DOMAIN tcbtab
       /\ call.sent[1] = lit_qfThreadInfo
       /\ TimesSent(lit_qfThreadInfo) = 1
       /\ TimesSent(lit_qsThreadInfo) = Len(hist.listings)
       /\ call.sent[Len(call.sent)]
             = (IF gdb_caps.vcont THEN lit_vCont_c ELSE lit_c)
       /\ Len(SelectSeq(call.sent, Resumes)) = 1

---------------------------------------------------------------------------
(* Detach: gdbserver.c 613-634.                                            *)

lit_D == Str(<<"D">>)
lit_D_semi == Str(<<"D", ";">>)
lit_T_semi == Str(<<"T", ";">>)

\* A gdb_detach that warns whenever the detach was not answered with "OK".
gdb_detach_warn_always(m, tcp) ==
    AndThen(exchange(m, IF m.caps.multiprocess THEN lit_D_semi \o fmt_x(tcp)
                        ELSE lit_D),
        LAMBDA m1 :
    AndThen(gdb_ok(m1), LAMBDA m2 :
        IF m2.ok THEN m2
        ELSE AndThen(exchange(m2, lit_T_semi \o fmt_x(tcp)), LAMBDA m3 :
             AndThen(gdb_ok(m3), LAMBDA m4 :
                 error_msg(m4, "gdb server failed to detach")))))

\* gdb_detach(tcp); tcp->pid is tcp.
gdb_detach(m, tcp) ==
    AndThen(exchange(m, IF m.caps.multiprocess THEN lit_D_semi \o fmt_x(tcp)
                        ELSE lit_D),
        LAMBDA m1 :
    AndThen(gdb_ok(m1), LAMBDA m2 :
        IF m2.ok THEN m2
        ELSE AndThen(exchange(m2, lit_T_semi \o fmt_x(tcp)), LAMBDA m3 :
             AndThen(gdb_ok(m3), LAMBDA m4 :
                 IF m4.ok THEN error_msg(m4, "gdb server failed to detach")
                 ELSE m4))))

---------------------------------------------------------------------------
(* SpecDetach: gdb_detach of a traced process, on a stub that answers the  *)
(* detach and the probe.                                                   *)

lit_OKAY == Str(<<"O", "K", "A", "Y">>)
lit_D_7b == Str(<<"D", ";", "7", "b">>)
lit_T_7b == Str(<<"T", ";", "7", "b">>)
lit_D_a == Str(<<"D", ";", "a">>)
lit_T_a == Str(<<"T", ";", "a">>)
lit_D_1234 == Str(<<"D", ";", "1", "2", "3", "4">>)
lit_T_1234 == Str(<<"T", ";", "1", "2", "3", "4">>)

\* The processes to detach from, each with the packets that name it.
DetachPids ==
    {[pid |-> 123, detach |-> lit_D_7b, probe |-> lit_T_7b],
     [pid |-> 10, detach |-> lit_D_a, probe |-> lit_T_a],
     [pid |-> 4660, detach |-> lit_D_1234, probe |-> lit_T_1234]}

DetachReplies == {OK, <<>>, lit_E01, lit_OKAY}

InitDetach ==
    \E p \in DetachPids, r1 \in DetachReplies, r2 \in DetachReplies,
       ack \in BOOLEAN, non_stop \in BOOLEAN, multiprocess \in BOOLEAN :
       /\ Boot([in |-> <<>>, out |-> <<>>, ack |-> ack,
                non_stop |-> non_stop],
               [caps0 EXCEPT !.extended = TRUE,
                             !.multiprocess = multiprocess],
               [q \in {p.pid} |->
                   [pid |-> q, flags |-> {"TCB_ATTACHED"}, scno |-> 0,
                    s_prev_ent |-> FALSE]],
               Scripted(<<r1, r2>>))
       /\ hist = [target |-> p, detach |-> r1, probe |-> r2]

Detach ==
    /\ status = "ok"
    /\ call.op = "none"
    /\ \E m \in {gdb_detach(Machine(NoUb), hist.target.pid)} :
          Commit(m) /\ Called("detach", m)
    /\ hist' = hist

NextDetach == Detach

SpecDetach == InitDetach /\ [][NextDetach]_vars

\* C18: gdb_detach sends D;<pid> under multiprocess and D otherwise.  When
\* the reply is "OK" it sends nothing more and warns of nothing; when it is
\* not, it sends T;<pid> once and warns exactly when the reply to that is
\* "OK".
C18_DetachProbesOnce ==
    call.op = "detach"
    => /\ status = "ok"
       /\ call.sent[1] = (IF gdb_caps.multiprocess THEN hist.target.detach
                          ELSE lit_D)
       /\ hist.detach = OK => (Len(call.sent) = 1 /\ ext = <<>>)
       /\ hist.detach # OK
          => /\ Len(call.sent) = 2
             /\ call.sent[2] = hist.target.probe
             /\ hist.probe = OK
                => ext = <<Event("gdb server failed to detach", 0, 0, 0)>>
             /\ hist.probe # OK => ext = <<>>

\* The detach is refused and the probe finds the process alive: a warning.
C18_Witness ==
    /\ call.op = "detach"
    /\ hist.detach = lit_E01 /\ hist.probe = OK
    /\ call.sent = <<lit_D_1234, lit_T_1234>>
    /\ ext # <<>>

---------------------------------------------------------------------------
(* Memory reads: gdbserver.c 816-850, protocol.c 148-163.                  *)

lit_m == Str(<<"m">>)
read_mem_chunk == 4096

\* gdb_decode_hex_buf(bytes, n, out): the result and the bytes stored in
\* out, which are those of the pairs in front of the first pair that is no
\* hex number.
gdb_decode_hex_buf(bytes, n) ==
    IF n % 2 = 1 THEN [ret |-> 0 - 1, out |-> <<>>]
    ELSE LET pair(k) == gdb_decode_hex(At(bytes, (2 * k) - 1),
                                       At(bytes, 2 * k))
             bad == {k \in 1..(n \div 2) : pair(k) > UINT8_MAX}
             done == IF bad = {} THEN n \div 2
                     ELSE (CHOOSE k \in bad : \A j \in bad : k <= j) - 1
         IN  [ret |-> IF bad = {} THEN 0 ELSE 0 - 1,
              out |-> [k \in 1..done |-> pair(k)]]

\* A test of the reply that lets a reply through that starts with 'E'.
read_mem_rejects_no_E(reply, size, len) ==
    size < 2 \/ size > len * 2

\* size < 2 || reply[0] == 'E' || size > len * 2.  (len is an unsigned
\* int; the lengths of the model stay below 2^31, where len * 2 does not
\* wrap.)
read_mem_rejects(reply, size, len) ==
    size < 2 \/ At(reply, 1) = ch_E \/ size > len * 2

\* The while loop of gdb_read_mem with check_nil false; out is what has
\* been stored in the buffer so far.
RECURSIVE read_mem_loop(_, _, _, _)
read_mem_loop(m, addr, len, out) ==
    IF m.status # "ok" THEN m
    ELSE IF len = 0 THEN [m EXCEPT !.ret = "0", !.reply = out]
    ELSE
    LET chunk_len == IF len < read_mem_chunk THEN len ELSE read_mem_chunk
    IN  AndThen(exchange(m, lit_m \o fmt_x(addr) \o lit_comma
                            \o fmt_x(chunk_len)),
            LAMBDA m1 :
        AndThen(gdb_recv(m1, FALSE), LAMBDA m2 :
            IF read_mem_rejects(m2.reply, m2.size, len)
            THEN [m2 EXCEPT !.ret = "-1", !.reply = out]
            ELSE Bind(gdb_decode_hex_buf(m2.reply, m2.size), LAMBDA dec :
                     IF dec.ret < 0
                     THEN [m2 EXCEPT !.ret = "-1", !.reply = out \o dec.out]
                     ELSE read_mem_loop(m2, addr + (m2.size \div 2),
                                        len - (m2.size \div 2),
                                        out \o dec.out))))

\* gdb_read_mem(tid, addr, len, false, out): the result is m.ret, the bytes
\* stored in out are m.reply.
gdb_read_mem(m, addr, len) == read_mem_loop(m, addr, len, <<>>)

---------------------------------------------------------------------------
(* SpecMem: gdb_read_mem on a stub that answers the m packets with the     *)
(* replies of a script of MaxReads replies.                                *)

MaxReads == 3

lit_ab == Str(<<"a", "b">>)
lit_abcd == Str(<<"a", "b", "c", "d">>)
lit_0a0B1c == Str(<<"0", "a", "0", "B", "1", "c">>)
lit_abc == Str(<<"a", "b", "c">>)
lit_abzz == Str(<<"a", "b", "z", "z">>)
lit_EA == Str(<<"E", "A">>)

\* The replies, each with the bytes it stands for when it is all hex.
MemReplies ==
    {[text |-> lit_ab, hex |-> TRUE, bytes |-> <<171>>],
     [text |-> lit_abcd, hex |-> TRUE, bytes |-> <<171, 205>>],
     [text |-> lit_0a0B1c, hex |-> TRUE, bytes |-> <<10, 11, 28>>],
     [text |-> lit_abc, hex |-> FALSE, bytes |-> <<>>],
     [text |-> lit_abzz, hex |-> FALSE, bytes |-> <<>>],
     [text |-> lit_E01, hex |-> FALSE, bytes |-> <<>>],
     [text |-> lit_EA, hex |-> TRUE, bytes |-> <<234>>],
     [text |-> <<>>, hex |-> TRUE, bytes |-> <<>>]}

MemLens == {1, 2, 3, 5, 4097, 8192}
MemAddrs == {255, 4096}

InitMem ==
    \E rs \in [1..MaxReads -> MemReplies], len \in MemLens,
       addr \in MemAddrs :
       /\ Boot([in |-> <<>>, out |-> <<>>, ack |-> FALSE,
                non_stop |-> FALSE],
               [caps0 EXCEPT !.extended = TRUE], <<>>,
               Scripted([i \in 1..MaxReads |-> rs[i].text]))
       /\ hist = [replies |-> rs, len |-> len, addr |-> addr]

ReadMem ==
    /\ status = "ok"
    /\ call.op = "none"
    /\ \E m \in {gdb_read_mem(Machine(NoUb), hist.addr, hist.len)} :
          Commit(m) /\ Called("read_mem", m)
    /\ hist' = hist

NextMem == ReadMem

SpecMem == InitMem /\ [][NextMem]_vars

\* The bytes of the first k replies of the script, and their number.
RECURSIVE GotBytes(_)
GotBytes(k) ==
    IF k = 0 THEN <<>> ELSE GotBytes(k - 1) \o hist.replies[k].bytes
Got(k) == Len(GotBytes(k))

\* The k-th reply is one gdb_read_mem refuses: it starts with 'E', its
\* length is odd, it is longer than twice what remains to be read, or it
\* holds a character that is no hex digit.
Refused(k) ==
    LET r == hist.replies[k]
    IN  \/ At(r.text, 1) = ch_E
        \/ Len(r.text) % 2 = 1
        \/ Len(r.text) > 2 * (hist.len - Got(k - 1))
        \/ ~r.hex

\* C19: with check_nil false, the k-th request of gdb_read_mem asks for
\* min(remaining, 0x1000) bytes at addr plus the number of bytes read so
\* far; never more than len bytes are stored in out; the result is 0 only
\* when len bytes have been decoded into out, and it is -1 when the last
\* reply read starts with 'E', has an odd length, is longer than twice the
\* remaining length or holds a character that is no hex digit.
C19_ReadMemChunks ==
    call.op = "read_mem"
    => LET n == Len(call.sent)
       IN  /\ status = "ok"
           /\ n \in 1..(MaxReads + 1)
           /\ \A k \in 1..n :
                 LET left == hist.len - Got(k - 1)
                 IN  call.sent[k]
                        = lit_m \o fmt_x(hist.addr + Got(k - 1)) \o lit_comma
                          \o fmt_x(IF left < 4096 THEN left ELSE 4096)
           /\ Len(call.reply) <= hist.len
           /\ call.ret \in {"0", "-1"}
           /\ call.ret = "0"
                 => /\ Len(call.reply) = hist.len
                    /\ n <= MaxReads
                    /\ call.reply = GotBytes(n)
           /\ (n <= MaxReads /\ Refused(n))
                 => /\ call.ret = "-1"
                    /\ IsPrefix(GotBytes(n - 1), call.reply)

lit_mff_5 == Str(<<"m", "f", "f", ",", "5">>)
lit_m101_3 == Str(<<"m", "1", "0", "1", ",", "3">>)
lit_m103_1 == Str(<<"m", "1", "0", "3", ",", "1">>)

\* Five bytes at 0xff are read with three requests: two bytes, then two,
\* then one.
C19_Witness ==
    /\ call.op = "read_mem" /\ call.ret = "0"
    /\ hist.len = 5 /\ hist.addr = 255
    /\ call.sent = <<lit_mff_5, lit_m101_3, lit_m103_1>>
    /\ call.reply = <<171, 205, 171, 205, 171>>

---------------------------------------------------------------------------
(* SpecXfer: gdb_xfer_read on a stub that answers the qXfer packets with   *)
(* at most MaxChunks chunks prefixed 'm' and then with a last reply.       *)

MaxChunks == 2

lit_AB == Str(<<"A", "B">>)
lit_ABCD == Str(<<"A", "B", "C", "D">>)
lit_auxv == Str(<<"a", "u", "x", "v">>)
lit_E2a == Str(<<"E", "2", "a">>)
lit_fff == Str(<<"f", "f", "f">>)

XferChunks == {<<>>, lit_AB, lit_ABCD}

\* The last replies: a chunk prefixed 'l', an error with its code, or the
\* empty reply.
XferLast ==
    {[text |-> lit_l, kind |-> "l", data |-> <<>>, code |-> 0],
     [text |-> lit_lAB, kind |-> "l", data |-> lit_AB, code |-> 0],
     [text |-> lit_E01, kind |-> "E", data |-> <<>>, code |-> 1],
     [text |-> lit_E2a, kind |-> "E", data |-> <<>>, code |-> 42],
     [text |-> <<>>, kind |-> "none", data |-> <<>>, code |-> 0]}

InitXfer ==
    \E chunks \in SeqsUpTo(XferChunks, MaxChunks), last \in XferLast,
       object \in {lit_siginfo, lit_auxv}, ack \in BOOLEAN :
       /\ Boot([in |-> <<>>, out |-> <<>>, ack |-> ack, non_stop |-> FALSE],
               [caps0 EXCEPT !.extended = TRUE], <<>>,
               Scripted([i \in 1..Len(chunks) |-> lit_m \o chunks[i]]
                        \o <<last.text>>))
       /\ hist = [chunks |-> chunks, last |-> last, object |-> object]

XferRead ==
    /\ status = "ok"
    /\ call.op = "none"
    /\ \E m \in {gdb_xfer_read(Machine(NoUb), hist.object, <<>>)} :
          Commit(m) /\ Called("xfer_read", m)
    /\ hist' = hist

NextXfer == XferRead

SpecXfer == InitXfer /\ [][NextXfer]_vars

\* The request for the chunk at offset.
XferRequest(offset) ==
    lit_qXfer \o hist.object \o lit_read \o lit_colon \o fmt_x(offset)
    \o lit_comma \o lit_fff

\* C20 (as claimed): when the stub answers k >= 0 chunks prefixed 'm' and
\* then a chunk prefixed 'l', gdb_xfer_read asks for every chunk at the
\* offset that is the number of bytes received so far, and returns the
\* bytes of all k + 1 chunks, with ret_size their number; when the stub
\* answers the chunks and then E<hh>, gdb_xfer_read returns nothing, with
\* ret_size the number hh.
C20_XferReadsAllChunks ==
    (call.op = "xfer_read" /\ hist.last.kind # "none")
    => LET k == Len(hist.chunks)
           upto(i) == Flatten(SubSeq(hist.chunks, 1, i))
       IN  /\ status = "ok"
           /\ call.sent = [i \in 1..(k + 1) |->
                              XferRequest(Len(upto(i - 1)))]
           /\ hist.last.kind = "l"
                 => /\ call.ok
                    /\ call.reply = upto(k) \o hist.last.data
                    /\ call.size = Len(upto(k)) + Len(hist.last.data)
           /\ hist.last.kind = "E"
                 => /\ ~call.ok
                    /\ call.size = hist.last.code

---------------------------------------------------------------------------
(* The trace loop and its queue.                                           *)

\* C21: the notification queue holds no entry when gdb_trace is entered
\* after the startup, and none whenever gdb_trace has returned, true or
\* false.
C21_QueueEmptyWhenIdle ==
    (status = "ok" /\ call.op \in {"released", "stopped", "trace"})
    => Queued(notifications) = <<>>

\* A call of gdb_trace that stored stops in the queue, handled them all
\* and returned true.
C21_Witness ==
    /\ status = "ok"
    /\ call.op = "trace" /\ call.ret = "true"
    /\ Len(call.handled) >= 2
    /\ notifications_size = InitialSlots
    /\ Queued(notifications) = <<>>


\* C22 (as claimed): every entry of the notification queue is a payload
\* that was received with a matching checksum, with acks on or off.  (After
\* the first call on a new connection: an entry is the payload of a packet
\* that call read with a right checksum.)
C22_QueuedWereVerified ==
    (call.op \in {"send", "recv", "noack"} /\ hist.calls = 1)
    => \A i \in 1..Len(Queued(notifications)) :
          \E j \in 1..Len(CallFrames) :
             /\ CallFrames[j].good
             /\ CallFrames[j].payload = Queued(notifications)[i][1]


\* C23 (as claimed): when the ingress ends while gdb_send waits for an ack
\* byte, or while recv_packet reads a packet, the process exits with a
\* diagnostic, and gdb_send writes its frame once and once more for every
\* byte it read, not again after the end of the ingress.
C23_EofAborts ==
    /\ (call.op = "send" /\ call.ack
        /\ PLUS \notin {call.bytes_read[i] : i \in 1..Len(call.bytes_read)})
       => /\ call.status \in {"exit0", "exit1"}
          /\ call.written = Times(g_frame, Len(call.bytes_read) + 1)
    /\ (call.op = "recv" /\ call.status # "ok")
       => call.status \in {"exit0", "exit1"}


\* The warnings logged so far.
Warned(msg) == \E i \in 1..Len(ext) : ext[i].ev = msg

\* C24 (as claimed): when the reply to QStartNoAckMode is not "OK", gdb_init
\* warns that noack mode could not be enabled and goes on with the
\* handshake with acks on; the warning is logged exactly when the acks are
\* still on after the handshake.
C24_NoAckRefusalWarns ==
    call.op = "init"
    => /\ Warned("couldn't enable gdb noack mode") <=> conn.ack
       /\ hist.replies[1] # OK
          => /\ conn.ack
             /\ Len(call.sent) = 4


---------------------------------------------------------------------------
(* SpecWire: recv_packet on one frame whose payload bytes are chosen on    *)
(* the wire: a literal, '*' and any byte as the repeat count; or '}' and   *)
(* any byte, or '*' and any byte, with or without a payload byte before    *)
(* and after.  The frame carries the checksum of all its payload bytes.    *)

WireLiterals == {ch_A, ch_0}
WireAround == {<<>>, <<ch_A>>}

InitWire ==
    /\ InitIdle
    /\ call = [op |-> "none"]
    /\ \/ \E lit \in WireLiterals, c \in 0..UINT8_MAX :
             hist = [kind |-> "rle", pre |-> <<lit>>, x |-> c, post |-> <<>>,
                     payload |-> <<lit, STAR, c>>]
       \/ \E pre \in WireAround, x \in 0..UINT8_MAX, post \in WireAround :
             hist = [kind |-> "escape", pre |-> pre, x |-> x, post |-> post,
                     payload |-> pre \o <<RBRACE, x>> \o post]
       \/ \E pre \in WireAround, x \in 0..UINT8_MAX, post \in WireAround :
             hist = [kind |-> "star", pre |-> pre, x |-> x, post |-> post,
                     payload |-> pre \o <<STAR, x>> \o post]

\* recv_packet reads the frame of the payload.
RecvWire ==
    /\ call.op = "none"
    /\ LET wire == Wire(DOLLAR, hist.payload, TRUE)
       IN  \E r \in {recv_packet(wire)} :
              call' = [op |-> "wire", wire |-> wire, status |-> r.status,
                       reply |-> r.reply, size |-> r.size,
                       sum_ok |-> r.sum_ok, rest |-> r.in]
    /\ UNCHANGED <<conn, notifications, notifications_size, tcbtab,
                   current_tcp, gdb_caps, status, ext, server, hist>>

NextWire == RecvWire

SpecWire == InitWire /\ [][NextWire]_vars

\* recv_packet returned this payload with a good checksum.
Received(p) ==
    /\ call.status = "ok"
    /\ call.sum_ok
    /\ call.reply = p
    /\ call.size = Len(p)

C25_WitnessCopies ==
    /\ call.op = "wire"
    /\ hist.payload = <<ch_A, STAR, HASH - 1>>
    /\ Received(Times(<<ch_A>>, 6))

\* The byte after '}' is one recv_packet acts on before the XOR: a packet
\* marker, another '}', or a '*' that repeats the byte before it.
EscapeLost(pre, x, post) ==
    \/ x \in {DOLLAR, PERCENT, HASH, RBRACE}
    \/ x = STAR /\ pre # <<>> /\ post # <<>> /\ rle_count_ok(post[1])

---------------------------------------------------------------------------
(* SpecSignal: gdb_map_signal on every signal number gdb_signal_map_init   *)
(* passes to it, and gdb_signal_to_target on those and on numbers past     *)
(* GDB_SIGNAL_LAST, the number -1 of a stop without a code among them      *)
(* (converted to unsigned it is past GDB_SIGNAL_LAST).                     *)

SignalInputs == (0 - 1)..(GDB_SIGNAL_LAST + 8)

InitSignal ==
    /\ InitIdle
    /\ call = [op |-> "none"]
    /\ \E g \in SignalInputs : hist = [g |-> g]

MapSignal ==
    /\ call.op = "none"
    /\ hist.g >= 0 /\ hist.g < GDB_SIGNAL_LAST
    /\ call' = [op |-> "map", g |-> hist.g, r |-> gdb_map_signal(hist.g)]
    /\ UNCHANGED <<conn, notifications, notifications_size, tcbtab,
                   current_tcp, gdb_caps, status, ext, server, hist>>

SignalToTarget ==
    /\ call.op = "none"
    /\ call' = [op |-> "target", g |-> hist.g,
                r |-> gdb_signal_to_target(Machine(NoUb), hist.g)]
    /\ UNCHANGED <<conn, notifications, notifications_size, tcbtab,
                   current_tcp, gdb_caps, status, ext, server, hist>>

NextSignal == MapSignal \/ SignalToTarget

SpecSignal == InitSignal /\ [][NextSignal]_vars

\* The host signals that carry the RSP name of the signal g.
HostsNamed(g) ==
    IF g < 1 \/ g > Len(gdb_signal_names) THEN {}
    ELSE {sig \in 1..(nsignals - 1) : signame[sig] = gdb_signal_names[g]}

\* C27: gdb_map_signal maps 0 to 0, REALTIME_32 to 32, REALTIME_33..63 to
\* 33..63 and REALTIME_64..127 to 64..127; any other signal g maps to g
\* when the host's signal g has the RSP name of g, else to a host signal in
\* 1..nsignals-1 of that name, else to -1; gdb_signal_to_target gives -1
\* for a signal that is not below GDB_SIGNAL_LAST, and the mapping below it.
C27_SignalMapping ==
    /\ call.op = "map"
       => LET g == call.g
              r == call.r
          IN  CASE g = GDB_SIGNAL_0 -> r = 0
                [] g = GDB_SIGNAL_REALTIME_32 -> r = 32
                [] g \in GDB_SIGNAL_REALTIME_33..GDB_SIGNAL_REALTIME_63 ->
                      r = g - GDB_SIGNAL_REALTIME_33 + 33
                [] g \in GDB_SIGNAL_REALTIME_64..GDB_SIGNAL_REALTIME_127 ->
                      r = g - GDB_SIGNAL_REALTIME_64 + 64
                [] OTHER ->
                      IF g \in HostsNamed(g) THEN r = g
                      ELSE IF HostsNamed(g) # {} THEN r \in HostsNamed(g)
                      ELSE r = 0 - 1
    /\ call.op = "target"
       => IF call.g < 0 \/ call.g >= GDB_SIGNAL_LAST THEN call.r = 0 - 1
          ELSE call.r = gdb_map_signal(call.g)

\* GDB's SIGBUS is 10, the host's is 7.
C27_Witness ==
    /\ call.op = "map"
    /\ call.g \in 1..Len(gdb_signal_names)
    /\ gdb_signal_names[call.g] = "SIGBUS"
    /\ call.r \in 1..(nsignals - 1)
    /\ call.g # call.r
    /\ signame[call.r] = "SIGBUS"


\* C28 (as claimed): a gdb_trace that handled a Signal stop and continues
\* with vCont sends vCont;C<hh>:<tid>;c, the thread before the ;c, where
\* <tid> is the thread whose stop reported the signal <hh>, whatever stops
\* of other threads the call handled after it.
C28_InjectsIntoReporter ==
    (/\ call.op = "trace" /\ call.ret = "true"
     /\ gdb_caps.vcont /\ SignalStops # <<>>)
    => \E s \in 1..Len(SignalStops) :
          call.sent[Len(call.sent)]
             = vCont \o <<SEMI, ch_C>>
                  \o gdb_encode_hex(SignalStops[s].stop.code)
                  \o <<COLON>> \o fmt_x(SignalStops[s].tid)
                  \o <<SEMI>> \o lit_c


\* The commands sent for the k-th stop of the call.
SentFor(k) ==
    SubSeq(call.sent, Handled[k].sent + 1,
           IF k < Len(Handled) THEN Handled[k + 1].sent ELSE Len(call.sent))

\* C29 (as claimed): under multiprocess, a gdb_trace that handled an Exited
\* or Terminated stop and dropped the thread record sends no g for that
\* stop and writes no field of the dropped record.
C29_ExitSkipsRegisters ==
    (call.op = "trace" /\ gdb_caps.multiprocess)
    => \A k \in 1..Len(Handled) :
          Handled[k].stop.type \in {"gdb_stop_exited", "gdb_stop_terminated"}
          => /\ \A i \in 1..Len(SentFor(k)) : SentFor(k)[i] # lit_g
             /\ \A i \in 1..Len(Segment(k)) :
                   Segment(k)[i].ev # "write_after_drop"


---------------------------------------------------------------------------
(* SpecKinds: gdb_recv_stop in all-stop mode on a stop reply made of any   *)
(* head (a packet letter and two hex digits) and at most MaxPairs n:r      *)
(* pairs out of syscall_entry, syscall_return and thread.                  *)

MaxPairs == 3

head_T05 == Str(<<"T", "0", "5">>)
head_T00 == Str(<<"T", "0", "0">>)
head_T0b == Str(<<"T", "0", "b">>)
head_S05 == Str(<<"S", "0", "5">>)
head_S0b == Str(<<"S", "0", "b">>)
head_W05 == Str(<<"W", "0", "5">>)
head_X05 == Str(<<"X", "0", "5">>)
head_E05 == Str(<<"E", "0", "5">>)
pair_entry  == Str(<<"s", "y", "s", "c", "a", "l", "l", "_", "e", "n", "t", "r", "y", ":", "3", "b", ";">>)
pair_return == Str(<<"s", "y", "s", "c", "a", "l", "l", "_", "r", "e", "t", "u", "r", "n", ":", "e", "7", ";">>)
pair_thread == Str(<<"t", "h", "r", "e", "a", "d", ":", "p", "7", "b", ".", "7", "c", ";">>)

StopHeads == {head_T05, head_T00, head_T0b, head_S05, head_S0b, head_W05,
              head_X05, head_E05}
StopPairs == {pair_entry, pair_return, pair_thread}

InitKinds ==
    /\ notifications = <<>>
    /\ notifications_size = 0
    /\ tcbtab = <<>>
    /\ current_tcp = 0
    /\ gdb_caps = caps0
    /\ status = "ok"
    /\ ext = <<>>
    /\ server = server0
    /\ \E head \in StopHeads, pairs \in SeqsUpTo(StopPairs, MaxPairs) :
          /\ hist = [head |-> head, pairs |-> pairs]
          /\ call = [op |-> "stop_sent",
                     payload |-> head \o Flatten(pairs), stop |-> stop0]
          /\ conn = [conn0 EXCEPT
                        !.in = Wire(DOLLAR, head \o Flatten(pairs), TRUE)]

DecodeStop ==
    /\ status = "ok"
    /\ call.op = "stop_sent"
    /\ \E m \in {gdb_recv_stop(Machine(NoUb), FALSE, stop0)} :
          /\ Commit(m)
          /\ call' = [call EXCEPT !.op = "decoded", !.stop = m.stop]
    /\ hist' = hist

NextKinds == DecodeStop

SpecKinds == InitKinds /\ [][NextKinds]_vars

SyscallKinds == {"gdb_stop_syscall_entry", "gdb_stop_syscall_return"}

SyscallPairs == SelectSeq(hist.pairs, LAMBDA p : p # pair_thread)

TrapHeads == {head_T05, head_T00, head_S05}

---------------------------------------------------------------------------
(* SpecPending: gdb_recv_stop(NULL) in non-stop mode with notifications in *)
(* the queue.  Acks are off.  The stub writes a syscall stop notification  *)
(* ahead of the OK to a command, and gdb_ok, which wants no stop, queues   *)
(* it (as after vAttach in gdb_startup_attach); this at most MaxNotes      *)
(* times.  Then the stub writes its answer to the next command, at most    *)
(* MaxAnswers packets, gdb_recv_stop is called, and the stub answers the   *)
(* vStopped polls from server.pending.                                     *)

MaxNotes == 2
MaxAnswers == 2

PendingNotes == {EntryStop, ReturnStop, EntryStop2}
AnswerPackets == {[start |-> DOLLAR, payload |-> OK],
                  [start |-> PERCENT, payload |-> EntryStop2],
                  [start |-> PERCENT, payload |-> TrapStop]}

RECURSIVE PacketWires(_)
PacketWires(ps) ==
    IF ps = <<>> THEN <<>>
    ELSE Wire(Head(ps).start, Head(ps).payload, TRUE) \o PacketWires(Tail(ps))

InitPending ==
    /\ conn = [in |-> <<>>, out |-> <<>>, ack |-> FALSE, non_stop |-> TRUE]
    /\ notifications = <<>>
    /\ notifications_size = 0
    /\ tcbtab = <<>>
    /\ current_tcp = 0
    /\ gdb_caps = [caps0 EXCEPT !.extended = TRUE]
    /\ status = "ok"
    /\ ext = <<>>
    /\ server = server0
    /\ call = [op |-> "none"]
    /\ hist = [notes |-> <<>>, answer |-> <<>>, queued |-> <<>>]

\* The stub writes a notification and then the OK to the last command.
ServerNotes ==
    /\ status = "ok"
    /\ call.op \in {"none", "ok"}
    /\ Len(hist.notes) < MaxNotes
    /\ \E note \in PendingNotes :
          /\ conn' = [conn EXCEPT
                         !.in = Wire(PERCENT, note, TRUE)
                                   \o Wire(DOLLAR, OK, TRUE)]
          /\ hist' = [hist EXCEPT !.notes = Append(@, note)]
    /\ call' = [op |-> "noted"]
    /\ UNCHANGED <<notifications, notifications_size, tcbtab, current_tcp,
                   gdb_caps, status, ext, server>>

GdbOk ==
    /\ status = "ok"
    /\ call.op = "noted"
    /\ \E m \in {gdb_ok(Machine(NoUb))} :
          /\ Commit(m)
          /\ call' = [op |-> "ok", ok |-> m.ok, status |-> m.status]
          /\ hist' = [hist EXCEPT !.queued = Queued(m.notifications)]

\* The stub writes its answer to the next command (vCont;t, vCont;c) and
\* has stops pending for the polls.
ServerAnswers ==
    /\ status = "ok"
    /\ call.op = "ok"
    /\ \E answer \in SeqsUpTo(AnswerPackets, MaxAnswers) \ {<<>>},
          pending \in SeqsUpTo({ReturnStop}, 1) :
          /\ conn' = [conn EXCEPT !.in = PacketWires(answer)]
          /\ server' = [server0 EXCEPT !.pending = pending]
          /\ hist' = [hist EXCEPT !.answer = answer]
    /\ call' = [op |-> "answered"]
    /\ UNCHANGED <<notifications, notifications_size, tcbtab, current_tcp,
                   gdb_caps, status, ext>>

RecvStopQueued ==
    /\ status = "ok"
    /\ call.op = "answered"
    /\ \E m \in {gdb_recv_stop(Machine(NoUb), FALSE, stop0)} :
          /\ Commit(m)
          /\ call' = [op |-> "recv_stop", status |-> m.status,
                      stop |-> m.stop, sent |-> m.sent]
    /\ hist' = hist

NextPending == ServerNotes \/ GdbOk \/ ServerAnswers \/ RecvStopQueued

SpecPending == InitPending /\ [][NextPending]_vars

\* What stop_switch makes of a payload on its own.
Decoded(payload) ==
    stop_switch([stop0 EXCEPT !.reply = payload, !.size = Len(payload)])

\* C31 (as claimed): a gdb_recv_stop(NULL) in non-stop mode with a queue
\* that is not empty, when it returns, returns the oldest queued
\* notification: its payload,
\* its size, its syscall kind and number; and every stop the stub wrote in
\* answer is returned or queued.
C31_PendingFirst ==
    (call.op = "recv_stop" /\ call.status = "ok" /\ hist.queued # <<>>)
    => /\ call.stop.reply = hist.queued[1][1]
       /\ call.stop.size = Len(hist.queued[1][1])
       /\ call.stop.type = Decoded(hist.queued[1][1]).type
       /\ call.stop.type \in SyscallKinds
       /\ call.stop.code = Decoded(hist.queued[1][1]).code
       /\ \A i \in 1..Len(hist.answer) :
             hist.answer[i].start = PERCENT
             => \E j \in 1..Len(Queued(notifications)) :
                   Queued(notifications)[j] = <<hist.answer[i].payload>>


\* C32 (as claimed): when the stub in non-stop mode reports an exit or a
\* termination (W<hh>... or X<hh>...) where gdb_trace expects a stop,
\* gdb_recv_stop returns an Exited or Terminated stop, and gdb_trace calls
\* the exit printer and drops the thread record.
C32_NonStopExitSeen ==
    (call.op = "trace" /\ conn.non_stop /\ hist.stop \in {ExitStop, TermStop})
    => /\ call.status = "ok"
       /\ Len(Handled) >= 1
       /\ Handled[1].stop.reply = hist.stop
       /\ Handled[1].stop.type
             = (IF hist.stop = ExitStop THEN "gdb_stop_exited"
                ELSE "gdb_stop_terminated")
       /\ \E i \in 1..Len(ext) :
             ext[i].ev \in {"print_exited", "print_signalled"}
       /\ \E i \in 1..Len(ext) : ext[i].ev = "droptcb"


\* C33 (as claimed): the pop_notification that returns an entry pushed as n
\* bytes without a NUL reports the size n and a buffer of those n bytes
\* with a NUL after them.
C33_EntriesKeepLength ==
    (call.op = "pop" /\ ~call.none)
    => /\ call.size = Len(call.entry[1])
       /\ call.reply = call.entry[1]


\* The '*' of a "star" frame starts a run: it follows a payload byte and a
\* valid repeat count follows it.
StarRepeats ==
    /\ hist.pre # <<>>
    /\ hist.x \in (29..126) \ {DOLLAR, HASH}

\* The bytes recv_packet acts on when it meets them in the payload.
WireSpecial == {DOLLAR, PERCENT, HASH, RBRACE, STAR}

\* s with every byte a replaced by b.
Replaced(s, a, b) == [i \in 1..Len(s) |-> IF s[i] = a THEN b ELSE s[i]]

\* C34: a '*' after a payload byte and before a count byte c in 29..126
\* other than '$' and '#' adds c - 29 copies of the byte before it, and
\* neither the '*' nor c; any other '*' is kept as a literal and the byte
\* after it is processed as the next input byte: a plain byte is added
\* to the payload, and a byte recv_packet acts on has the effect it has
\* after the plain byte '0'.  The checksum counts every payload byte of the
\* wire once.
C34_RleExpansion ==
    (call.op = "wire" /\ hist.kind = "star")
    => /\ StarRepeats
          => Received(Times(hist.pre, hist.x - 28) \o hist.post)
       /\ (~StarRepeats /\ hist.x \notin WireSpecial)
          => Received(hist.pre \o <<STAR, hist.x>> \o hist.post)
       /\ (~StarRepeats /\ hist.x \in WireSpecial)
          => \E r \in {recv_packet(Wire(DOLLAR,
                           hist.pre \o <<ch_0, hist.x>> \o hist.post, TRUE))} :
                /\ call.status = r.status
                /\ call.reply = Replaced(r.reply, ch_0, STAR)
                /\ call.sum_ok = r.sum_ok

\* A '*' after a payload byte and before the byte 28, one below the lowest
\* count.
C34_Witness ==
    /\ call.op = "wire" /\ hist.kind = "star"
    /\ hist.pre = <<ch_A>> /\ hist.x = 28 /\ hist.post = <<ch_A>>
    /\ Received(<<ch_A, STAR, 28, ch_A>>)


---------------------------------------------------------------------------
(* SpecNotify: recv_packet and gdb_recv on one frame that starts with '%'. *)
(* The five bytes after the '%' are "Stop:" or "Stop:" with one byte       *)
(* replaced; the frame is whole, with the checksum of the five bytes and   *)
(* the payload, or it ends after three of the five bytes.                  *)

NotifyBytes == {ch_A, ch_space, 0, DOLLAR, HASH, PERCENT}
NotifyTags ==
    {StopColon}
       \cup {[StopColon EXCEPT ![i] = b] : i \in 1..5, b \in NotifyBytes}
NotifyPayloads == {EntryStop, TrapStop, OK}

NotifyWire(tag, payload, cut) ==
    IF cut THEN <<PERCENT>> \o Take(tag, 3)
    ELSE <<PERCENT>> \o tag \o payload \o <<HASH>>
            \o gdb_encode_hex(SumBytes(tag \o payload))

InitNotify ==
    /\ InitIdle
    /\ call = [op |-> "none"]
    /\ \E tag \in NotifyTags, payload \in NotifyPayloads, cut \in BOOLEAN :
          hist = [tag |-> tag, payload |-> payload, cut |-> cut,
                  wire |-> NotifyWire(tag, payload, cut)]

\* recv_packet reads the frame.
RecvNotifyPacket ==
    /\ call.op = "none"
    /\ \E r \in {recv_packet(hist.wire)} :
          call' = [op |-> "packet", status |-> r.status, reply |-> r.reply,
                   size |-> r.size, sum_ok |-> r.sum_ok, rest |-> r.in]
    /\ UNCHANGED <<conn, notifications, notifications_size, tcbtab,
                   current_tcp, gdb_caps, status, ext, server, hist>>

\* gdb_recv reads the frame, for a caller that wants a stop or does not.
RecvNotify ==
    /\ call.op = "none"
    /\ \E want_stop \in BOOLEAN :
       \E m \in {gdb_recv([Machine(NoUb) EXCEPT !.in = hist.wire],
                          want_stop)} :
          /\ Commit(m)
          /\ call' = [op |-> "recv", status |-> m.status, reply |-> m.reply,
                      size |-> m.size, want_stop |-> want_stop]
    /\ hist' = hist

NextNotify == RecvNotifyPacket \/ RecvNotify

SpecNotify == InitNotify /\ [][NextNotify]_vars

\* C35: when the five bytes after a '%' start byte are not "Stop:",
\* recv_packet ends the process with a nonzero exit status, and no payload
\* is returned or queued; when they are "Stop:", they count in the checksum
\* and the payload returned starts with the byte after the colon.
C35_UnknownNotificationFatal ==
    /\ (call.op = "packet" /\ (hist.tag # StopColon \/ hist.cut))
       => /\ call.status = "exit1"
          /\ call.reply = <<>> /\ call.size = 0
    /\ (call.op = "recv" /\ (hist.tag # StopColon \/ hist.cut))
       => /\ status = "exit1"
          /\ call.reply = <<>> /\ call.size = 0
          /\ Queued(notifications) = <<>>
    /\ (call.op = "packet" /\ hist.tag = StopColon /\ ~hist.cut)
       => /\ call.status = "ok"
          /\ call.sum_ok
          /\ call.reply = hist.payload
          /\ call.size = Len(hist.payload)

\* "%StoA:" with a syscall stop behind it, for a caller that wants no stop.
C35_Witness ==
    /\ call.op = "recv" /\ ~call.want_stop
    /\ hist.tag = [StopColon EXCEPT ![4] = ch_A]
    /\ hist.payload = EntryStop /\ ~hist.cut
    /\ status = "exit1"
    /\ Queued(notifications) = <<>>

=============================================================================
